---- MODULE Spec2Model ----
(***************************************************************************)
(* A model of the things CLI: the script builder and executor calls and    *)
(* the interpretation of the bridge's output (things_actions.go), the      *)
(* formatters (formatters.go) and the commands (main.go).                  *)
(* Strings are TLA+ strings; every operation is one action that draws the  *)
(* caller's parameters and the executor's answers from bounded sets.       *)
(***************************************************************************)
EXTENDS Integers, Sequences, FiniteSets, TLC

VARIABLES op, args, interp, calls, result, todos, err, ret

vars == <<op, args, interp, calls, result, todos, err, ret>>

----------------------------------------------------------------------------
\* Bounds of the model.

\* the longest generated caller string (over Alphabet)
MaxLen == 2

\* the characters the generated caller strings are made of: a plain letter,
\* both quote delimiters and the backslash
Alphabet == {"a", "'", "\"", "\\"}

RECURSIVE StrsOfLen(_)
StrsOfLen(n) ==
  IF n = 0 THEN {""} ELSE {s \o c : s \in StrsOfLen(n - 1), c \in Alphabet}

\* every string over Alphabet of length 0..MaxLen
Wild == UNION {StrsOfLen(n) : n \in 0..MaxLen}

\* two ordinary names, one with both kinds of quotes in it
Plain == {"Work", "Bob's \"B\""}

\* parameter tuples: one generated string, the other parameters plain
Args2 == (Wild \X Plain) \cup (Plain \X Wild)
Args3 == (Wild \X Plain \X Plain) \cup (Plain \X Wild \X Plain)
           \cup (Plain \X Plain \X Wild)

----------------------------------------------------------------------------
\* The Go library functions the code calls, on TLA+ strings.

\* s[i..j] (1-based, both ends included), cut to the positions s has
Sub(s, i, j) ==
  LET a == IF i < 1 THEN 1 ELSE i
      b == IF j > Len(s) THEN Len(s) ELSE j
  IN IF a > b THEN "" ELSE SubSeq(s, a, b)

\* strings.HasPrefix
HasPrefix(s, prefix) ==
  Len(s) >= Len(prefix) /\ Sub(s, 1, Len(prefix)) = prefix

\* strings.Contains
Contains(s, substr) ==
  \E i \in 1..(Len(s) - Len(substr) + 1) : Sub(s, i, i + Len(substr) - 1) = substr

\* strings.ReplaceAll, for a non-empty old: non-overlapping, left to right
RECURSIVE ReplaceAll(_, _, _)
ReplaceAll(s, old, new) ==
  IF Len(s) < Len(old) THEN s
  ELSE IF Sub(s, 1, Len(old)) = old
       THEN new \o ReplaceAll(Sub(s, Len(old) + 1, Len(s)), old, new)
       ELSE Sub(s, 1, 1) \o ReplaceAll(Sub(s, 2, Len(s)), old, new)

\* the white space strings.TrimSpace removes (the ASCII part of it)
Space == {" ", "\n", "\t", "\r"}

RECURSIVE TrimLeft(_)
TrimLeft(s) ==
  IF Len(s) > 0 /\ Sub(s, 1, 1) \in Space THEN TrimLeft(Sub(s, 2, Len(s))) ELSE s

RECURSIVE TrimRight(_)
TrimRight(s) ==
  IF Len(s) > 0 /\ Sub(s, Len(s), Len(s)) \in Space
  THEN TrimRight(Sub(s, 1, Len(s) - 1)) ELSE s

\* strings.TrimSpace
TrimSpace(s) == TrimRight(TrimLeft(s))

\* fmt.Sprintf for a format whose verbs are all %s (or %v of a string):
\* pieces are the format's text around the verbs, vals the arguments
RECURSIVE Sprintf(_, _)
Sprintf(pieces, vals) ==
  IF Len(vals) = 0 THEN pieces[1]
  ELSE pieces[1] \o vals[1] \o Sprintf(Tail(pieces), Tail(vals))

----------------------------------------------------------------------------
\* Values.

\* a Go error: nil, or an error with its message
NilErr == [isNil |-> TRUE, msg |-> ""]
Error(m) == [isNil |-> FALSE, msg |-> m]

\* fmt.Errorf("<prefix>%v", e)
Errorf(prefix, e) == Error(prefix \o e.msg)

\* OperationResult{} (the zero value)
ZeroResult == [Success |-> FALSE, Message |-> ""]

\* a []Todo: the nil slice, or a slice with its items
NilTodos == [isNil |-> TRUE, items |-> <<>>]
Slice(items) == [isNil |-> FALSE, items |-> items]

\* one executor.Execute(name, args...) with what it answered
Call(argv, out, e) == [argv |-> argv, out |-> out, err |-> e]

\* what ret holds when the function returns no value of another kind
NoValue == <<>>

\* a string interpolated into a script literal, with the literal's delimiter
Lit(text, quote) == [text |-> text, quote |-> quote]

----------------------------------------------------------------------------
\* Script text.

\* jxaTodoObjectBuilder: the JXA snippet that builds one todo record
jxaTodoObjectBuilder ==
  "\n        var item = {\n            name: todo.name(),\n            status: todo.status()\n        };\n\n        // Add optional string properties\n        if (todo.notes()) item.notes = todo.notes();\n\n        // Add date properties (convert to ISO 8601 strings)\n        if (todo.creationDate()) item.creationDate = todo.creationDate().toISOString();\n        if (todo.modificationDate()) item.modificationDate = todo.modificationDate().toISOString();\n        if (todo.dueDate()) item.dueDate = todo.dueDate().toISOString();\n        if (completionDate) item.completionDate = completionDate.toISOString();\n        if (todo.cancellationDate()) item.cancellationDate = todo.cancellationDate().toISOString();\n\n        // Add tag names (convert string to array if needed)\n        var tags = todo.tagNames();\n        if (tags) {\n            if (typeof tags === 'string') {\n                item.tagNames = tags.split(',').map(function(t) { return t.trim(); }).filter(function(t) { return t.length > 0; });\n            } else if (tags.length > 0) {\n                item.tagNames = tags;\n            }\n        }\n\n        // Add parent references\n        if (todo.area && todo.area()) item.area = todo.area().name();\n        if (todo.project && todo.project()) item.project = todo.project().name();\n\n        result.push(item);"

filterCheckText ==
  "\n        // Skip if no completion date or before filter date\n        if (!completionDate || completionDate < filterDate) {\n            continue;\n        }"

\* the JXA script template of getTodosFromListWithFilter (each gap is one %s)
listTemplate ==
  << "\ntry {\n    var app = Application('Things3');\n    var list = app.lists.byName('",
     "');\n    var todos = list.toDos();\n    var result = [];\n    ",
     "\n\n    for (var i = 0; i < todos.length; i++) {\n        var todo = todos[i];\n        var completionDate = todo.completionDate();\n",
     "\n",
     "\n    }\n    JSON.stringify(result);\n} catch (e) {\n    'ERROR: List \"",
     "\" not found';\n}\n" >>

\* the JXA script template of addTodoToList
addTemplate ==
  << "\ntry {\n    var app = Application('Things3');\n    var list = app.lists.byName('",
     "');\n    var todo = app.ToDo(",
     ");\n    list.toDos.unshift(todo);\n    'SUCCESS';\n} catch (e) {\n    'ERROR: ' + e.message;\n}\n" >>

\* the JXA script template of deleteTodoFromList
deleteTemplate ==
  << "\ntry {\n    var app = Application('Things3');\n    var list = app.lists.byName('",
     "');\n    var todos = list.toDos();\n    var todoFound = false;\n\n    for (var i = 0; i < todos.length; i++) {\n        if (todos[i].name() === '",
     "') {\n            app.delete(todos[i]);\n            todoFound = true;\n            break;\n        }\n    }\n\n    if (todoFound) {\n        'SUCCESS';\n    } else {\n        'ERROR: To-do not found in list';\n    }\n} catch (e) {\n    'ERROR: List not found';\n}\n" >>

\* the AppleScript template of moveTodoBetweenLists
moveTemplate ==
  << "\ntry\n    tell application \"Things3\"\n        set todoItem to first to do of list \"",
     "\" whose name is \"",
     "\"\n        move todoItem to list \"",
     "\"\n        return \"SUCCESS\"\n    end tell\non error errMsg\n    if errMsg contains \"Can't get\" then\n        return \"ERROR: To-do not found\"\n    else\n        return \"ERROR: \" & errMsg\n    end if\nend try\n" >>

\* the JXA script template of renameTodoInList
renameTemplate ==
  << "\ntry {\n    var app = Application('Things3');\n    var list = app.lists.byName('",
     "');\n    var todos = list.toDos();\n    var todoFound = false;\n\n    for (var i = 0; i < todos.length; i++) {\n        if (todos[i].name() === '",
     "') {\n            todos[i].name = '",
     "';\n            todoFound = true;\n            break;\n        }\n    }\n\n    if (todoFound) {\n        'SUCCESS';\n    } else {\n        'ERROR: To-do not found in list';\n    }\n} catch (e) {\n    'ERROR: List not found';\n}\n" >>

\* the JXA script of logCompletedNow (no parameters)
logCompletedScript ==
  "\ntry {\n    var app = Application('Things3');\n    app.logCompletedNow();\n    'SUCCESS';\n} catch (e) {\n    'ERROR: ' + e.message;\n}\n"

----------------------------------------------------------------------------
\* The inputs the operations are run on.

\* what Execute returns as its error: nil, or a process-level failure
ExecErrs == {NilErr, Error("exit status 1")}

\* the bytes the bridge prints for a mutating script: the success token (with
\* and without white space around it), a success text of the tests' mock
\* executor, the scripts' own ERROR: texts, other ERROR: texts, and outputs
\* that are neither
MutOutputs ==
  { "SUCCESS", "SUCCESS\n", "", "To-do added successfully to list \"Work\"!",
    "ERROR: To-do not found in list", "\n  ERROR: To-do not found in list \n",
    "ERROR: List not found", "ERROR: To-do not found",
    "ERROR: can't get object", "ERROR:", "error: lower case",
    "SUCCESS ERROR: not found in list" }

\* the bytes the bridge prints for housekeeping
LogOutputs == {"SUCCESS", "", "ERROR: Things.app is not running", " ERROR: x\n"}

\* the bytes the bridge prints for a list script: arrays of records.
\* One record with a name and a status alone
oneRecord ==
  "[{\"name\":\"Buy groceries\",\"status\":\"open\"}]"

\* three records with dates, areas, a project and tags; the third carries no
\* completion date
threeRecords ==
  "[{\"name\":\"A\",\"status\":\"completed\",\"completionDate\":\"2024-01-15T05:00:00.000Z\",\"area\":\"Work\"},{\"name\":\"B\",\"status\":\"completed\",\"completionDate\":\"2024-01-16T05:00:01Z\",\"area\":\"Work\",\"project\":\"Home\",\"tagNames\":[\"x\",\"y\"]},{\"name\":\"C\",\"status\":\"canceled\",\"notes\":\"n\",\"area\":\"Personal\"}]"

\* two records: one with a zone offset in its date; one with a key in another
\* case, a status that is none of Things' three and a key that is no field
zoneRecords ==
  "[{\"name\":\"D\",\"status\":\"completed\",\"completionDate\":\"2024-01-15T23:59:59+05:30\",\"project\":\"Home\"},{\"Name\":\"E\",\"status\":\"done\",\"extra\":[1,{\"k\":null}]}]"

\* four records completed at the turn of a day in one of the locations (the
\* first nanosecond after a day, the last one of it, the first one of it) and
\* on a leap day
boundaryRecords ==
  "[{\"name\":\"F\",\"status\":\"completed\",\"completionDate\":\"2024-01-16T05:00:00Z\"},{\"name\":\"G\",\"status\":\"completed\",\"completionDate\":\"2024-01-16T04:59:59.999999999Z\"},{\"name\":\"H\",\"status\":\"completed\",\"completionDate\":\"2024-01-15T00:00:00+05:30\"},{\"name\":\"I\",\"status\":\"completed\",\"completionDate\":\"2024-02-29T12:00:00Z\"}]"

\* the arrays of records: the empty one (bare and with white space) and those above
RecordPayloads ==
  {"[]", " [ ] \n", oneRecord, threeRecords, zoneRecords, boundaryRecords}

\* JSON null, and an array whose one element is null
NullPayloads == {"null", "[null]"}

\* the scripts' ERROR: texts
SentinelPayloads == {"ERROR: List \"Logbook\" not found", "\n  ERROR: x \n"}

\* texts that json.Unmarshal rejects for a []Todo: no JSON, an object, a number
\* for a string, a cut array, a date that is none, a string for a record
MalformedPayloads ==
  { "",
    "SUCCESS",
    "{\"name\":\"x\",\"status\":\"open\"}",
    "[{\"name\":5,\"status\":\"open\"}]",
    "[{\"name\":\"a\",\"status\":\"open\"}",
    "[{\"name\":\"a\",\"status\":\"open\",\"completionDate\":\"yesterday\"}]",
    "[\"ERROR: in an array\"]" }

FetchOutputs == RecordPayloads \cup NullPayloads \cup SentinelPayloads \cup MalformedPayloads

----------------------------------------------------------------------------
\* Digits and numbers in text.

DigitChars == {"0", "1", "2", "3", "4", "5", "6", "7", "8", "9"}

IsDigit(c) == c \in DigitChars

DigitVal(c) == CHOOSE v \in 0..9 : Sub("0123456789", v + 1, v + 1) = c

\* every character of s is a digit
AllDigits(s) == \A i \in 1..Len(s) : IsDigit(Sub(s, i, i))

\* the value of a string of digits
RECURSIVE Atoi(_)
Atoi(s) ==
  IF Len(s) = 0 THEN 0
  ELSE 10 * Atoi(Sub(s, 1, Len(s) - 1)) + DigitVal(Sub(s, Len(s), Len(s)))

\* the decimal text of n >= 0
RECURSIVE Itoa(_)
Itoa(n) ==
  IF n < 10 THEN Sub("0123456789", n + 1, n + 1)
  ELSE Itoa(n \div 10) \o Sub("0123456789", (n % 10) + 1, (n % 10) + 1)

\* n >= 0 in at least w digits, zero padded
RECURSIVE Pad(_, _)
Pad(n, w) == IF Len(Itoa(n)) >= w THEN Itoa(n) ELSE "0" \o Pad(n, w - 1)

----------------------------------------------------------------------------
\* time.Time: an instant (day, sec, nsec: days since 1970-01-01 UTC, second of
\* that day, nanosecond of that second) with the offset (seconds east of UTC)
\* of the location it is shown in. Locations are fixed offsets.

Time(day, sec, nsec, off) == [day |-> day, sec |-> sec, nsec |-> nsec, off |-> off]

\* *time.Time
NilTime == [isNil |-> TRUE, t |-> Time(0, 0, 0, 0)]
PtrTime(t) == [isNil |-> FALSE, t |-> t]

IsLeap(y) == (y % 4 = 0 /\ y % 100 # 0) \/ y % 400 = 0

DaysIn(y, m) ==
  IF m = 2 THEN (IF IsLeap(y) THEN 29 ELSE 28)
  ELSE IF m \in {4, 6, 9, 11} THEN 30 ELSE 31

\* days from 1970-01-01 to the civil date y-m-d (proleptic Gregorian): yy is
\* the year that starts on March 1, mp the month counted from March
DaysFromYoe(era, yoe, doy) ==
  era * 146097 + (yoe * 365 + yoe \div 4 - yoe \div 100 + doy) - 719468

DaysFromMarch(yy, mp, d) ==
  DaysFromYoe(yy \div 400, yy - (yy \div 400) * 400, (153 * mp + 2) \div 5 + d - 1)

DaysFromCivil(y, m, d) ==
  DaysFromMarch(IF m <= 2 THEN y - 1 ELSE y, IF m > 2 THEN m - 3 ELSE m + 9, d)

\* the civil date of a day number, in the steps of the usual algorithm: the
\* 400-year era and the day of it, the year of the era, the day of the year
\* (counted from March 1), the month (March = 0), the date
CivilDate(y, m, d) == [year |-> y + (IF m <= 2 THEN 1 ELSE 0), month |-> m, day |-> d]

CivilFromMp(era, yoe, doy, mp) ==
  CivilDate(yoe + era * 400, IF mp < 10 THEN mp + 3 ELSE mp - 9,
            doy - (153 * mp + 2) \div 5 + 1)

CivilFromDoy(era, yoe, doy) == CivilFromMp(era, yoe, doy, (5 * doy + 2) \div 153)

CivilFromYoe(era, doe, yoe) ==
  CivilFromDoy(era, yoe, doe - (365 * yoe + yoe \div 4 - yoe \div 100))

CivilFromDoe(era, doe) ==
  CivilFromYoe(era, doe, (doe - doe \div 1460 + doe \div 36524 - doe \div 146096) \div 365)

CivilFromEra(zz, era) == CivilFromDoe(era, zz - era * 146097)

CivilFromDays(z) == CivilFromEra(z + 719468, (z + 719468) \div 146097)

\* the instant sec seconds after the start of day (sec of any sign), in off
Normal(day, sec, nsec, off) == Time(day + sec \div 86400, sec % 86400, nsec, off)

\* the wall clock of t in its location: day number and second of the day
WallDay(t) == t.day + (t.sec + t.off) \div 86400
WallSec(t) == (t.sec + t.off) % 86400

\* t.Year(), t.Month(), t.Day(), t.Weekday() (Sunday = 0; 1970-01-01 was a
\* Thursday)
Year(t) == CivilFromDays(WallDay(t)).year
Month(t) == CivilFromDays(WallDay(t)).month
Day(t) == CivilFromDays(WallDay(t)).day
Weekday(t) == (WallDay(t) + 4) % 7

\* time.Date(y, m, d, 0, 0, 0, 0, loc) for a date of the calendar
Date(y, m, d, loc) == Normal(DaysFromCivil(y, m, d), 0 - loc, 0, loc)

\* t.AddDate(0, 0, days): the same wall clock, days later
AddDate(t, days) == Time(t.day + days, t.sec, t.nsec, t.off)

\* t.In(loc)
In(t, loc) == Time(t.day, t.sec, t.nsec, loc)

\* t.Before(u): instants compare, whatever the locations
Before(t, u) ==
  \/ t.day < u.day
  \/ t.day = u.day /\ t.sec < u.sec
  \/ t.day = u.day /\ t.sec = u.sec /\ t.nsec < u.nsec

\* time.Time{}: January 1, year 1, 00:00:00 UTC
ZeroTime == Time(DaysFromCivil(1, 1, 1), 0, 0, 0)

\* the zone suffix of RFC 3339: Z for offset 0, else +hh:mm or -hh:mm
FormatZoneAbs(sign, a) == sign \o Pad(a \div 3600, 2) \o ":" \o Pad((a % 3600) \div 60, 2)

FormatZone(off) ==
  IF off = 0 THEN "Z"
  ELSE IF off < 0 THEN FormatZoneAbs("-", 0 - off) ELSE FormatZoneAbs("+", off)

\* the civil date c and second of the day s as 2006-01-02T15:04:05
FormatWall(c, s) ==
  Pad(c.year, 4) \o "-" \o Pad(c.month, 2) \o "-" \o Pad(c.day, 2) \o "T"
    \o Pad(s \div 3600, 2) \o ":" \o Pad((s % 3600) \div 60, 2) \o ":" \o Pad(s % 60, 2)

\* t.Format(time.RFC3339) = "2006-01-02T15:04:05Z07:00"
FormatRFC3339(t) == FormatWall(CivilFromDays(WallDay(t)), WallSec(t)) \o FormatZone(t.off)

\* CheckedDate without the check of the month and the day
CheckedDateLenient(y, m, d) == [ok |-> TRUE, t |-> Time(DaysFromCivil(y, m, d), 0, 0, 0)]

\* the date y-m-d at 00:00:00 UTC when it is a date of the calendar
CheckedDate(y, m, d) ==
  IF m \in 1..12 /\ d >= 1 /\ d <= DaysIn(y, m)
  THEN [ok |-> TRUE, t |-> Time(DaysFromCivil(y, m, d), 0, 0, 0)]
  ELSE [ok |-> FALSE, t |-> ZeroTime]

\* time.Parse("2006-01-02", value): four digits, two digits, two digits,
\* nothing after them, and a date of the calendar; the result is in UTC
ParseDate(value) ==
  IF /\ Len(value) = 10
     /\ AllDigits(Sub(value, 1, 4)) /\ Sub(value, 5, 5) = "-"
     /\ AllDigits(Sub(value, 6, 7)) /\ Sub(value, 8, 8) = "-"
     /\ AllDigits(Sub(value, 9, 10))
  THEN CheckedDate(Atoi(Sub(value, 1, 4)), Atoi(Sub(value, 6, 7)), Atoi(Sub(value, 9, 10)))
  ELSE [ok |-> FALSE, t |-> ZeroTime]

----------------------------------------------------------------------------
\* time.Time.UnmarshalJSON on the text of a JSON string: strict RFC 3339,
\* "2006-01-02T15:04:05", then an optional fraction, then Z or +hh:mm / -hh:mm

At(s, i) == Sub(s, i, i)

\* the end of the run of digits that starts at i (i - 1 when there is none)
RECURSIVE DigitsEnd(_, _)
DigitsEnd(s, i) ==
  IF i <= Len(s) /\ IsDigit(At(s, i)) THEN DigitsEnd(s, i + 1) ELSE i - 1

\* the zone is Z or a sign, two digits (at most 23), a colon, two digits (at most 59)
ZoneOK(zone) ==
  \/ zone = "Z"
  \/ /\ Len(zone) = 6 /\ At(zone, 1) \in {"+", "-"}
     /\ AllDigits(Sub(zone, 2, 3)) /\ At(zone, 4) = ":" /\ AllDigits(Sub(zone, 5, 6))
     /\ Atoi(Sub(zone, 2, 3)) <= 23 /\ Atoi(Sub(zone, 5, 6)) <= 59

\* the offset a zone names, in seconds east of UTC
ZoneOffset(zone) ==
  IF zone = "Z" THEN 0
  ELSE (IF At(zone, 1) = "-" THEN -1 ELSE 1)
         * (Atoi(Sub(zone, 2, 3)) * 3600 + Atoi(Sub(zone, 5, 6)) * 60)

\* the nanoseconds a fraction's digits name (digits after the ninth are cut)
Nanos(frac) == IF Len(frac) = 0 THEN 0 ELSE Atoi(Sub(frac \o "000000000", 1, 9))

\* the instant of checked fields, read in the zone of offset off
InstantOf(y, m, d, secOfDay, nsec, off) ==
  Normal(DaysFromCivil(y, m, d), secOfDay - off, nsec, off)

\* the fields of an RFC 3339 text whose shape is right; frac is the text of the
\* fraction after its dot, dot says whether there is a dot
RFC3339Fields(y, m, d, hh, mm, ss, dot, frac, zone) ==
  IF /\ m \in 1..12 /\ d >= 1 /\ d <= DaysIn(y, m)
     /\ hh <= 23 /\ mm <= 59 /\ ss <= 59
     /\ (dot => Len(frac) > 0)
     /\ ZoneOK(zone)
  THEN [ok |-> TRUE,
        t |-> InstantOf(y, m, d, hh * 3600 + mm * 60 + ss, Nanos(frac), ZoneOffset(zone))]
  ELSE [ok |-> FALSE, t |-> ZeroTime]

\* s is cut at fracEnd, the last position of its fraction (19 without one)
RFC3339Cut(s, dot, fracEnd) ==
  RFC3339Fields(Atoi(Sub(s, 1, 4)), Atoi(Sub(s, 6, 7)), Atoi(Sub(s, 9, 10)),
                Atoi(Sub(s, 12, 13)), Atoi(Sub(s, 15, 16)), Atoi(Sub(s, 18, 19)),
                dot, Sub(s, 21, fracEnd), Sub(s, fracEnd + 1, Len(s)))

ParseRFC3339(s) ==
  IF /\ Len(s) >= 20
     /\ AllDigits(Sub(s, 1, 4)) /\ At(s, 5) = "-"
     /\ AllDigits(Sub(s, 6, 7)) /\ At(s, 8) = "-"
     /\ AllDigits(Sub(s, 9, 10)) /\ At(s, 11) = "T"
     /\ AllDigits(Sub(s, 12, 13)) /\ At(s, 14) = ":"
     /\ AllDigits(Sub(s, 15, 16)) /\ At(s, 17) = ":"
     /\ AllDigits(Sub(s, 18, 19))
  THEN IF At(s, 20) = "." THEN RFC3339Cut(s, TRUE, DigitsEnd(s, 21))
       ELSE RFC3339Cut(s, FALSE, 19)
  ELSE [ok |-> FALSE, t |-> ZeroTime]

----------------------------------------------------------------------------
\* JSON text to a JSON value (the syntax check and scan of json.Unmarshal).
\* A value is [t, s, a]: t its kind, s the text of a string or number, a the
\* elements of an array or the <<key, value>> members of an object.

JNull == [t |-> "null", s |-> "", a |-> <<>>]
JBool(b) == [t |-> "bool", s |-> b, a |-> <<>>]
JString(s) == [t |-> "string", s |-> s, a |-> <<>>]
JNumber(s) == [t |-> "number", s |-> s, a |-> <<>>]
JArray(a) == [t |-> "array", s |-> "", a |-> a]
JObject(a) == [t |-> "object", s |-> "", a |-> a]

\* a scan that failed, and one that read value v and stopped before position i
Bad == [ok |-> FALSE, v |-> JNull, i |-> 0]
Got(v, i) == [ok |-> TRUE, v |-> v, i |-> i]

\* the first position at or after i that holds no JSON white space
RECURSIVE SkipWS(_, _)
SkipWS(s, i) == IF i <= Len(s) /\ At(s, i) \in Space THEN SkipWS(s, i + 1) ELSE i

\* the hexadecimal digits of a \uXXXX escape, in either case
IsHex(c) == \E i \in 1..22 : At("0123456789abcdefABCDEF", i) = c

HexVal(c) ==
  CHOOSE v \in 0..15 : At("0123456789abcdef", v + 1) = c \/ At("0123456789ABCDEF", v + 1) = c

AllHex(h) == \A i \in 1..Len(h) : IsHex(At(h, i))

\* the code point four hexadecimal digits name
CodePoint(h) ==
  4096 * HexVal(At(h, 1)) + 256 * HexVal(At(h, 2)) + 16 * HexVal(At(h, 3)) + HexVal(At(h, 4))

\* the characters of the codes 32..95 and 97..126, in their order (a TLA+
\* string cannot hold the character of code 96, the grave accent)
Printable ==
  " !\"#$%&'()*+,-./0123456789:;<=>?@ABCDEFGHIJKLMNOPQRSTUVWXYZ[\\]^_"

PrintableLower == "abcdefghijklmnopqrstuvwxyz{|}~"

\* the character of the code point \uXXXX names. The strings of the model
\* hold the printable characters, tab, newline and carriage return; any other
\* code point is written by its number
RuneOf(h) ==
  IF CodePoint(h) \in 32..95 THEN At(Printable, CodePoint(h) - 31)
  ELSE IF CodePoint(h) \in 97..126 THEN At(PrintableLower, CodePoint(h) - 96)
  ELSE CASE CodePoint(h) = 9 -> "\t"
         [] CodePoint(h) = 10 -> "\n"
         [] CodePoint(h) = 13 -> "\r"
         [] OTHER -> "<U+" \o h \o ">"

\* the character a backslash and c stand for (c is none of u)
Unescape(c) ==
  CASE c = "n" -> "\n"
    [] c = "t" -> "\t"
    [] c = "r" -> "\r"
    [] c = "b" -> "<U+0008>"
    [] c = "f" -> "<U+000C>"
    [] OTHER -> c

\* a string's characters from position i (after the opening quote), after
\* those of acc; a raw control character ends the scan
RECURSIVE ParseString(_, _, _)
ParseString(s, i, acc) ==
  IF i > Len(s) THEN Bad
  ELSE IF At(s, i) = "\"" THEN Got(JString(acc), i + 1)
  ELSE IF At(s, i) \in {"\n", "\t", "\r"} THEN Bad
  ELSE IF At(s, i) = "\\"
       THEN IF At(s, i + 1) \in {"\"", "\\", "/", "n", "t", "r", "b", "f"}
            THEN ParseString(s, i + 2, acc \o Unescape(At(s, i + 1)))
            ELSE IF At(s, i + 1) = "u" /\ i + 5 <= Len(s) /\ AllHex(Sub(s, i + 2, i + 5))
            THEN ParseString(s, i + 6, acc \o RuneOf(Sub(s, i + 2, i + 5)))
            ELSE Bad
  ELSE ParseString(s, i + 1, acc \o At(s, i))

\* a number from position i: -? (0 | [1-9][0-9]*) (. [0-9]+)?  (exponents are
\* not modelled). j is where its digits start, e where the integer part ends,
\* f where the fraction that starts at f0 ends
NumberEnd(s, i, f0, f) == IF f >= f0 THEN Got(JNumber(Sub(s, i, f)), f + 1) ELSE Bad

NumberFrac(s, i, j, e) ==
  IF ~(e >= j /\ (At(s, j) = "0" => e = j)) THEN Bad
  ELSE IF At(s, e + 1) = "." THEN NumberEnd(s, i, e + 2, DigitsEnd(s, e + 2))
  ELSE Got(JNumber(Sub(s, i, e)), e + 1)

NumberInt(s, i, j) == NumberFrac(s, i, j, DigitsEnd(s, j))

ParseNumber(s, i) == NumberInt(s, i, IF At(s, i) = "-" THEN i + 1 ELSE i)

RECURSIVE ParseValue(_, _), ParseElements(_, _, _), ParseMembers(_, _, _)

\* after an element r of an array: a comma and more elements, or the end
ElementsNext(s, k, acc) ==
  IF At(s, k) = "," THEN ParseElements(s, k + 1, acc)
  ELSE IF At(s, k) = "]" THEN Got(JArray(acc), k + 1)
  ELSE Bad

ElementsAfter(s, r, acc) ==
  IF ~r.ok THEN Bad ELSE ElementsNext(s, SkipWS(s, r.i), Append(acc, r.v))

\* the elements of an array from position i, after those of acc
ParseElements(s, i, acc) == ElementsAfter(s, ParseValue(s, i), acc)

\* after a member's value r: a comma and more members, or the end
MembersNext(s, k, acc) ==
  IF At(s, k) = "," THEN ParseMembers(s, k + 1, acc)
  ELSE IF At(s, k) = "}" THEN Got(JObject(acc), k + 1)
  ELSE Bad

MemberAfter(s, name, r, acc) ==
  IF ~r.ok THEN Bad ELSE MembersNext(s, SkipWS(s, r.i), Append(acc, <<name, r.v>>))

\* after a member's key: the colon at c and the value
MemberValue(s, name, c, acc) ==
  IF At(s, c) = ":" THEN MemberAfter(s, name, ParseValue(s, c + 1), acc) ELSE Bad

MemberColon(s, key, acc) ==
  IF ~key.ok THEN Bad ELSE MemberValue(s, key.v.s, SkipWS(s, key.i), acc)

MemberKey(s, j, acc) ==
  IF At(s, j) = "\"" THEN MemberColon(s, ParseString(s, j + 1, ""), acc) ELSE Bad

\* the members of an object from position i, after those of acc
ParseMembers(s, i, acc) == MemberKey(s, SkipWS(s, i), acc)

\* the value that starts at position j, which holds no white space
ParseValueAt(s, j) ==
  IF j > Len(s) THEN Bad
  ELSE IF Sub(s, j, j + 3) = "null" THEN Got(JNull, j + 4)
  ELSE IF Sub(s, j, j + 3) = "true" THEN Got(JBool("true"), j + 4)
  ELSE IF Sub(s, j, j + 4) = "false" THEN Got(JBool("false"), j + 5)
  ELSE IF At(s, j) = "\"" THEN ParseString(s, j + 1, "")
  ELSE IF At(s, j) = "-" \/ IsDigit(At(s, j)) THEN ParseNumber(s, j)
  ELSE IF At(s, j) = "["
       THEN IF At(s, SkipWS(s, j + 1)) = "]"
            THEN Got(JArray(<<>>), SkipWS(s, j + 1) + 1)
            ELSE ParseElements(s, j + 1, <<>>)
  ELSE IF At(s, j) = "{"
       THEN IF At(s, SkipWS(s, j + 1)) = "}"
            THEN Got(JObject(<<>>), SkipWS(s, j + 1) + 1)
            ELSE ParseMembers(s, j + 1, <<>>)
  ELSE Bad

\* the value that starts at or after position i
ParseValue(s, i) == ParseValueAt(s, SkipWS(s, i))

\* r when it is the whole of s but for white space
WholeOf(s, r) == IF r.ok /\ SkipWS(s, r.i) = Len(s) + 1 THEN r ELSE Bad

\* the whole text as one JSON value, white space around it allowed
ParseJSON(s) == WholeOf(s, ParseValue(s, 1))

----------------------------------------------------------------------------
\* A JSON value into []Todo (the decoding of json.Unmarshal).

\* Todo{} (the zero value)
ZeroTodo ==
  [Name |-> "", Notes |-> "", Status |-> "",
   CreationDate |-> NilTime, ModificationDate |-> NilTime, DueDate |-> NilTime,
   CompletionDate |-> NilTime, CancellationDate |-> NilTime,
   TagNames |-> <<>>, Area |-> "", Project |-> ""]

\* the lower-case letter of an upper-case one, any other character unchanged
LowerChar(c) ==
  IF \E i \in 1..26 : At("ABCDEFGHIJKLMNOPQRSTUVWXYZ", i) = c
  THEN At("abcdefghijklmnopqrstuvwxyz",
          CHOOSE i \in 1..26 : At("ABCDEFGHIJKLMNOPQRSTUVWXYZ", i) = c)
  ELSE c

RECURSIVE ToLower(_)
ToLower(s) ==
  IF Len(s) = 0 THEN "" ELSE LowerChar(At(s, 1)) \o ToLower(Sub(s, 2, Len(s)))

\* a decoding step: whether it went without error, and the Todo after it
Step(ok, todo) == [ok |-> ok, todo |-> todo]

\* a JSON value into a string field: null leaves the field as it is
SetString(todo, field, v) ==
  IF v.t = "string" THEN Step(TRUE, [todo EXCEPT ![field] = v.s])
  ELSE Step(v.t = "null", todo)

\* a JSON value into a *time.Time field: null makes it nil, a string is read by
\* time.Time.UnmarshalJSON (r is what that read)
SetParsedTime(todo, field, r) ==
  IF r.ok THEN Step(TRUE, [todo EXCEPT ![field] = PtrTime(r.t)]) ELSE Step(FALSE, todo)

SetTime(todo, field, v) ==
  IF v.t = "null" THEN Step(TRUE, [todo EXCEPT ![field] = NilTime])
  ELSE IF v.t = "string" THEN SetParsedTime(todo, field, ParseRFC3339(v.s))
  ELSE Step(FALSE, todo)

\* a JSON value into a []string field: an array of strings (null as "")
SetStrings(todo, field, v) ==
  IF v.t = "null" THEN Step(TRUE, [todo EXCEPT ![field] = <<>>])
  ELSE IF v.t = "array"
       THEN Step(\A i \in 1..Len(v.a) : v.a[i].t \in {"string", "null"},
                 [todo EXCEPT ![field] =
                    [i \in 1..Len(v.a) |-> IF v.a[i].t = "string" THEN v.a[i].s ELSE ""]])
       ELSE Step(FALSE, todo)

\* one member of a JSON object into the field of todo whose json tag is k
\* (in lower case); a key that is no tag is skipped
SetTagged(todo, k, v) ==
  CASE k = "name" -> SetString(todo, "Name", v)
    [] k = "notes" -> SetString(todo, "Notes", v)
    [] k = "status" -> SetString(todo, "Status", v)
    [] k = "creationdate" -> SetTime(todo, "CreationDate", v)
    [] k = "modificationdate" -> SetTime(todo, "ModificationDate", v)
    [] k = "duedate" -> SetTime(todo, "DueDate", v)
    [] k = "completiondate" -> SetTime(todo, "CompletionDate", v)
    [] k = "cancellationdate" -> SetTime(todo, "CancellationDate", v)
    [] k = "tagnames" -> SetStrings(todo, "TagNames", v)
    [] k = "area" -> SetString(todo, "Area", v)
    [] k = "project" -> SetString(todo, "Project", v)
    [] OTHER -> Step(TRUE, todo)

\* json matches a key to a tag whatever the case of its letters
SetField(todo, key, v) == SetTagged(todo, ToLower(key), v)

\* acc, then step r
ThenStep(acc, r) == Step(acc.ok /\ r.ok, r.todo)

\* the members of an object, in their order, into acc.todo (a later member
\* overwrites an earlier one; decoding goes on after a member that fails)
RECURSIVE DecodeMembers(_, _)
DecodeMembers(members, acc) ==
  IF Len(members) = 0 THEN acc
  ELSE DecodeMembers(Tail(members),
                     ThenStep(acc, SetField(acc.todo, members[1][1], members[1][2])))

\* a JSON value into a Todo: an object by its members, null as the zero value
DecodeTodo(v) ==
  IF v.t = "object" THEN DecodeMembers(v.a, Step(TRUE, ZeroTodo))
  ELSE Step(v.t = "null", ZeroTodo)

\* ThenItem with the item put before the others
ThenItemFirst(acc, r) == [ok |-> acc.ok /\ r.ok, items |-> <<r.todo>> \o acc.items]

\* acc (whether all went without error, and the items so far), then item r
ThenItem(acc, r) == [ok |-> acc.ok /\ r.ok, items |-> Append(acc.items, r.todo)]

\* the elements of an array, in their order, into a slice
RECURSIVE DecodeElements(_, _)
DecodeElements(elems, acc) ==
  IF Len(elems) = 0 THEN acc
  ELSE DecodeElements(Tail(elems), ThenItem(acc, DecodeTodo(elems[1])))

\* the slice d decoded from an array
UnmarshalArray(d) ==
  IF d.ok THEN [err |-> NilErr, todos |-> Slice(d.items)]
  ELSE [err |-> Error("json: cannot unmarshal into Go struct field"),
        todos |-> Slice(d.items)]

\* what the scan p of the text makes of todos
UnmarshalScanned(p) ==
  IF ~p.ok THEN [err |-> Error("invalid JSON syntax"), todos |-> NilTodos]
  ELSE IF p.v.t = "null" THEN [err |-> NilErr, todos |-> NilTodos]
  ELSE IF p.v.t = "array"
       THEN UnmarshalArray(DecodeElements(p.v.a, [ok |-> TRUE, items |-> <<>>]))
  ELSE [err |-> Error("json: cannot unmarshal into Go value of type []main.Todo"),
        todos |-> NilTodos]

\* json.Unmarshal([]byte(text), &todos) for var todos []Todo: the error (nil
\* when there is none) and todos afterwards. null leaves todos nil; an array,
\* the empty one too, makes it a slice. Of the library's message only the kind
\* is modelled.
Unmarshal(text) == UnmarshalScanned(ParseJSON(text))

----------------------------------------------------------------------------
\* Escaping.

\* strings.ReplaceAll(x, "'", "\\'"): the escaping of the JXA operations
escapeSingleQuote(s) == ReplaceAll(s, "'", "\\'")

\* escapeDoubleQuote escaping for the other dialect
escapeDoubleQuoteAsSingle(s) == ReplaceAll(s, "'", "\\'")

\* strings.ReplaceAll(x, "\"", "\\\""): the escaping of the AppleScript operation
escapeDoubleQuote(s) == ReplaceAll(s, "\"", "\\\"")

----------------------------------------------------------------------------
\* The executor, and what a function of the program hands back.

\* what executor.Execute answers to one call: its bytes and its error
Answer(out, e) == [out |-> out, err |-> e]

\* executor.Execute("osascript", "-l", "JavaScript", "-e", script)
ExecuteJXA(script, ans) ==
  Call(<<"osascript", "-l", "JavaScript", "-e", script>>, ans.out, ans.err)

\* ExecuteAppleScript with the flag of the other dialect
ExecuteAppleScriptAsJXA(script, ans) ==
  Call(<<"osascript", "-l", "JavaScript", "-e", script>>, ans.out, ans.err)

\* executor.Execute("osascript", "-e", script)
ExecuteAppleScript(script, ans) == Call(<<"osascript", "-e", script>>, ans.out, ans.err)

\* what a function returns (an OperationResult or a []Todo, and an error),
\* with the executor calls it made, in order, and the strings it put into
\* script literals
Ret(r, t, e, c, l) == [result |-> r, todos |-> t, err |-> e, calls |-> c, interp |-> l]

\* return OperationResult{...}, err
RetResult(r, e, c, l) == Ret(r, NilTodos, e, c, l)

\* return todos, err
RetTodos(t, e, c, l) == Ret(ZeroResult, t, e, c, l)

OperationResult(success, message) == [Success |-> success, Message |-> message]

----------------------------------------------------------------------------
\* getTodosFromListWithFilter, getTodosFromList

\* returnParsed with the decoding error dropped
returnParsedUnchecked(parsed, c, l) == RetTodos(parsed.todos, NilErr, c, l)

\* the end of getTodosFromListWithFilter: parsed is what json.Unmarshal made
\* of the output
returnParsed(parsed, c, l) ==
  IF ~parsed.err.isNil
  THEN RetTodos(NilTodos, Errorf("error parsing JSON: ", parsed.err), c, l)
  ELSE RetTodos(parsed.todos, NilErr, c, l)

\* getTodosFromListWithFilter after the executor's call c: outputStr is the
\* trimmed output
readOutput(ans, outputStr, c, l) ==
  IF ~ans.err.isNil
  THEN RetTodos(NilTodos, Errorf("error running JXA script: ", ans.err), c, l)
  ELSE IF HasPrefix(outputStr, "ERROR:")
  THEN RetTodos(NilTodos, Error(outputStr), c, l)
  ELSE returnParsed(Unmarshal(outputStr), c, l)

\* the script of getTodosFromListWithFilter
listScript(escapedListName, filterDateISO) ==
  Sprintf(listTemplate,
          <<escapedListName,
            IF filterDateISO # ""
            THEN Sprintf(<<"var filterDate = new Date('", "');">>, <<filterDateISO>>)
            ELSE "",
            IF filterDateISO # "" THEN filterCheckText ELSE "",
            jxaTodoObjectBuilder, escapedListName>>)

\* getTodosFromListWithFilter reading the output as the bridge printed it
getTodosFromListWithFilterUntrimmed(listName, filterDateISO, ans) ==
  readOutput(ans, ans.out,
             <<ExecuteJXA(listScript(escapeSingleQuote(listName), filterDateISO), ans)>>,
             <<Lit(escapeSingleQuote(listName), "'"), Lit(escapeSingleQuote(listName), "'")>>)

getTodosFromListWithFilter(listName, filterDateISO, ans) ==
  readOutput(ans, TrimSpace(ans.out),
             <<ExecuteJXA(listScript(escapeSingleQuote(listName), filterDateISO), ans)>>,
             <<Lit(escapeSingleQuote(listName), "'"), Lit(escapeSingleQuote(listName), "'")>>)

getTodosFromList(listName, ans) == getTodosFromListWithFilter(listName, "", ans)

----------------------------------------------------------------------------
\* addTodoToList

\* addTodoToList with an executor error turned into a failure result
addTodoToListSoftError(listName, text, tags, ans) ==
  LET escapedListName == escapeSingleQuote(listName)
      escapedText == escapeSingleQuote(text)
      escapedTags == escapeSingleQuote(tags)
      todoProperties ==
        IF tags = "" THEN Sprintf(<<"{name: '", "'}">>, <<escapedText>>)
        ELSE Sprintf(<<"{name: '", "', tagNames: '", "'}">>, <<escapedText, escapedTags>>)
      jxaScript == Sprintf(addTemplate, <<escapedListName, todoProperties>>)
      calls_ == <<ExecuteJXA(jxaScript, ans)>>
      lits == IF tags = "" THEN <<Lit(escapedListName, "'"), Lit(escapedText, "'")>>
              ELSE <<Lit(escapedListName, "'"), Lit(escapedText, "'"),
                     Lit(escapedTags, "'")>>
      outputStr == TrimSpace(ans.out)
  IN IF ~ans.err.isNil
     THEN RetResult(OperationResult(FALSE, "ERROR: " \o ans.err.msg), NilErr, calls_, lits)
     ELSE IF HasPrefix(outputStr, "ERROR:")
     THEN RetResult(OperationResult(FALSE, outputStr), NilErr, calls_, lits)
     ELSE RetResult(
            OperationResult(TRUE,
              Sprintf(<<"To-do added successfully to list \"", "\"!">>, <<listName>>)),
            NilErr, calls_, lits)

\* addTodoToList with the ERROR: marker cut from the failure message
addTodoToListBareMessage(listName, text, tags, ans) ==
  LET escapedListName == escapeSingleQuote(listName)
      escapedText == escapeSingleQuote(text)
      escapedTags == escapeSingleQuote(tags)
      todoProperties ==
        IF tags = "" THEN Sprintf(<<"{name: '", "'}">>, <<escapedText>>)
        ELSE Sprintf(<<"{name: '", "', tagNames: '", "'}">>, <<escapedText, escapedTags>>)
      jxaScript == Sprintf(addTemplate, <<escapedListName, todoProperties>>)
      calls_ == <<ExecuteJXA(jxaScript, ans)>>
      lits == IF tags = "" THEN <<Lit(escapedListName, "'"), Lit(escapedText, "'")>>
              ELSE <<Lit(escapedListName, "'"), Lit(escapedText, "'"),
                     Lit(escapedTags, "'")>>
      outputStr == TrimSpace(ans.out)
  IN IF ~ans.err.isNil
     THEN RetResult(ZeroResult, Errorf("error running JXA script: ", ans.err), calls_, lits)
     ELSE IF HasPrefix(outputStr, "ERROR:")
     THEN RetResult(OperationResult(FALSE, TrimSpace(Sub(outputStr, 7, Len(outputStr)))),
                    NilErr, calls_, lits)
     ELSE RetResult(
            OperationResult(TRUE,
              Sprintf(<<"To-do added successfully to list \"", "\"!">>, <<listName>>)),
            NilErr, calls_, lits)

addTodoToList(listName, text, tags, ans) ==
  LET escapedListName == escapeSingleQuote(listName)
      escapedText == escapeSingleQuote(text)
      escapedTags == escapeSingleQuote(tags)
      todoProperties ==
        IF tags = "" THEN Sprintf(<<"{name: '", "'}">>, <<escapedText>>)
        ELSE Sprintf(<<"{name: '", "', tagNames: '", "'}">>, <<escapedText, escapedTags>>)
      jxaScript == Sprintf(addTemplate, <<escapedListName, todoProperties>>)
      calls_ == <<ExecuteJXA(jxaScript, ans)>>
      lits == IF tags = "" THEN <<Lit(escapedListName, "'"), Lit(escapedText, "'")>>
              ELSE <<Lit(escapedListName, "'"), Lit(escapedText, "'"),
                     Lit(escapedTags, "'")>>
      outputStr == TrimSpace(ans.out)
  IN IF ~ans.err.isNil
     THEN RetResult(ZeroResult, Errorf("error running JXA script: ", ans.err), calls_, lits)
     ELSE IF HasPrefix(outputStr, "ERROR:")
     THEN RetResult(OperationResult(FALSE, outputStr), NilErr, calls_, lits)
     ELSE RetResult(
            OperationResult(TRUE,
              Sprintf(<<"To-do added successfully to list \"", "\"!">>, <<listName>>)),
            NilErr, calls_, lits)

----------------------------------------------------------------------------
\* deleteTodoFromList

\* deleteTodoFromList telling the two failures apart by "not found" alone
deleteTodoFromListLooseMatch(listName, todoName, ans) ==
  LET escapedListName == escapeSingleQuote(listName)
      escapedTodoName == escapeSingleQuote(todoName)
      jxaScript == Sprintf(deleteTemplate, <<escapedListName, escapedTodoName>>)
      calls_ == <<ExecuteJXA(jxaScript, ans)>>
      lits == <<Lit(escapedListName, "'"), Lit(escapedTodoName, "'")>>
      outputStr == TrimSpace(ans.out)
  IN IF ~ans.err.isNil
     THEN RetResult(ZeroResult, Errorf("error running JXA script: ", ans.err), calls_, lits)
     ELSE IF HasPrefix(outputStr, "ERROR:")
     THEN IF Contains(outputStr, "not found")
          THEN RetResult(
                 OperationResult(FALSE,
                   Sprintf(<<"ERROR: To-do \"", "\" not found in list \"", "\"">>,
                           <<todoName, listName>>)),
                 NilErr, calls_, lits)
          ELSE RetResult(
                 OperationResult(FALSE,
                   Sprintf(<<"ERROR: List \"", "\" not found">>, <<listName>>)),
                 NilErr, calls_, lits)
     ELSE RetResult(
            OperationResult(TRUE,
              Sprintf(<<"To-do \"", "\" deleted successfully from list \"", "\"!">>,
                      <<todoName, listName>>)),
            NilErr, calls_, lits)

deleteTodoFromList(listName, todoName, ans) ==
  LET escapedListName == escapeSingleQuote(listName)
      escapedTodoName == escapeSingleQuote(todoName)
      jxaScript == Sprintf(deleteTemplate, <<escapedListName, escapedTodoName>>)
      calls_ == <<ExecuteJXA(jxaScript, ans)>>
      lits == <<Lit(escapedListName, "'"), Lit(escapedTodoName, "'")>>
      outputStr == TrimSpace(ans.out)
  IN IF ~ans.err.isNil
     THEN RetResult(ZeroResult, Errorf("error running JXA script: ", ans.err), calls_, lits)
     ELSE IF HasPrefix(outputStr, "ERROR:")
     THEN IF Contains(outputStr, "not found in list")
          THEN RetResult(
                 OperationResult(FALSE,
                   Sprintf(<<"ERROR: To-do \"", "\" not found in list \"", "\"">>,
                           <<todoName, listName>>)),
                 NilErr, calls_, lits)
          ELSE RetResult(
                 OperationResult(FALSE,
                   Sprintf(<<"ERROR: List \"", "\" not found">>, <<listName>>)),
                 NilErr, calls_, lits)
     ELSE RetResult(
            OperationResult(TRUE,
              Sprintf(<<"To-do \"", "\" deleted successfully from list \"", "\"!">>,
                      <<todoName, listName>>)),
            NilErr, calls_, lits)

----------------------------------------------------------------------------
\* moveTodoBetweenLists

\* moveTodoBetweenLists taking only the success token for success
moveTodoBetweenListsStrictToken(fromList, toList, todoName, ans) ==
  LET escapedFromList == escapeDoubleQuote(fromList)
      escapedToList == escapeDoubleQuote(toList)
      escapedTodoName == escapeDoubleQuote(todoName)
      applescript == Sprintf(moveTemplate,
                             <<escapedFromList, escapedTodoName, escapedToList>>)
      calls_ == <<ExecuteAppleScript(applescript, ans)>>
      lits == <<Lit(escapedFromList, "\""), Lit(escapedTodoName, "\""),
                Lit(escapedToList, "\"")>>
      outputStr == TrimSpace(ans.out)
  IN IF ~ans.err.isNil
     THEN RetResult(ZeroResult, Errorf("error running AppleScript: ", ans.err), calls_, lits)
     ELSE IF outputStr = "SUCCESS"
     THEN RetResult(
            OperationResult(TRUE,
              Sprintf(<<"To-do \"", "\" moved successfully from list \"",
                        "\" to list \"", "\"!">>,
                      <<todoName, fromList, toList>>)),
            NilErr, calls_, lits)
     ELSE IF Contains(outputStr, "not found")
     THEN RetResult(
            OperationResult(FALSE,
              Sprintf(<<"ERROR: To-do \"", "\" not found in list \"", "\"">>,
                      <<todoName, fromList>>)),
            NilErr, calls_, lits)
     ELSE RetResult(OperationResult(FALSE, outputStr), NilErr, calls_, lits)

\* moveTodoBetweenLists naming the list the to-do was to go to
moveTodoBetweenListsWrongList(fromList, toList, todoName, ans) ==
  LET escapedFromList == escapeDoubleQuote(fromList)
      escapedToList == escapeDoubleQuote(toList)
      escapedTodoName == escapeDoubleQuote(todoName)
      applescript == Sprintf(moveTemplate,
                             <<escapedFromList, escapedTodoName, escapedToList>>)
      calls_ == <<ExecuteAppleScript(applescript, ans)>>
      lits == <<Lit(escapedFromList, "\""), Lit(escapedTodoName, "\""),
                Lit(escapedToList, "\"")>>
      outputStr == TrimSpace(ans.out)
  IN IF ~ans.err.isNil
     THEN RetResult(ZeroResult, Errorf("error running AppleScript: ", ans.err), calls_, lits)
     ELSE IF HasPrefix(outputStr, "ERROR:")
     THEN IF Contains(outputStr, "not found")
          THEN RetResult(
                 OperationResult(FALSE,
                   Sprintf(<<"ERROR: To-do \"", "\" not found in list \"", "\"">>,
                           <<todoName, toList>>)),
                 NilErr, calls_, lits)
          ELSE RetResult(OperationResult(FALSE, outputStr), NilErr, calls_, lits)
     ELSE RetResult(
            OperationResult(TRUE,
              Sprintf(<<"To-do \"", "\" moved successfully from list \"",
                        "\" to list \"", "\"!">>,
                      <<todoName, fromList, toList>>)),
            NilErr, calls_, lits)

moveTodoBetweenLists(fromList, toList, todoName, ans) ==
  LET escapedFromList == escapeDoubleQuote(fromList)
      escapedToList == escapeDoubleQuote(toList)
      escapedTodoName == escapeDoubleQuote(todoName)
      applescript == Sprintf(moveTemplate,
                             <<escapedFromList, escapedTodoName, escapedToList>>)
      calls_ == <<ExecuteAppleScript(applescript, ans)>>
      lits == <<Lit(escapedFromList, "\""), Lit(escapedTodoName, "\""),
                Lit(escapedToList, "\"")>>
      outputStr == TrimSpace(ans.out)
  IN IF ~ans.err.isNil
     THEN RetResult(ZeroResult, Errorf("error running AppleScript: ", ans.err), calls_, lits)
     ELSE IF HasPrefix(outputStr, "ERROR:")
     THEN IF Contains(outputStr, "not found")
          THEN RetResult(
                 OperationResult(FALSE,
                   Sprintf(<<"ERROR: To-do \"", "\" not found in list \"", "\"">>,
                           <<todoName, fromList>>)),
                 NilErr, calls_, lits)
          ELSE RetResult(OperationResult(FALSE, outputStr), NilErr, calls_, lits)
     ELSE RetResult(
            OperationResult(TRUE,
              Sprintf(<<"To-do \"", "\" moved successfully from list \"",
                        "\" to list \"", "\"!">>,
                      <<todoName, fromList, toList>>)),
            NilErr, calls_, lits)

----------------------------------------------------------------------------
\* renameTodoInList

\* renameTodoInList with the success message made of the escaped parameters
renameTodoInListEscapedMessage(listName, oldName, newName, ans) ==
  LET escapedListName == escapeSingleQuote(listName)
      escapedOldName == escapeSingleQuote(oldName)
      escapedNewName == escapeSingleQuote(newName)
      jxaScript == Sprintf(renameTemplate,
                           <<escapedListName, escapedOldName, escapedNewName>>)
      calls_ == <<ExecuteJXA(jxaScript, ans)>>
      lits == <<Lit(escapedListName, "'"), Lit(escapedOldName, "'"),
                Lit(escapedNewName, "'")>>
      outputStr == TrimSpace(ans.out)
  IN IF ~ans.err.isNil
     THEN RetResult(ZeroResult, Errorf("error running JXA script: ", ans.err), calls_, lits)
     ELSE IF HasPrefix(outputStr, "ERROR:")
     THEN IF Contains(outputStr, "not found in list")
          THEN RetResult(
                 OperationResult(FALSE,
                   Sprintf(<<"ERROR: To-do \"", "\" not found in list \"", "\"">>,
                           <<oldName, listName>>)),
                 NilErr, calls_, lits)
          ELSE RetResult(
                 OperationResult(FALSE,
                   Sprintf(<<"ERROR: List \"", "\" not found">>, <<listName>>)),
                 NilErr, calls_, lits)
     ELSE RetResult(
            OperationResult(TRUE,
              Sprintf(<<"To-do \"", "\" renamed to \"", "\" in list \"", "\"!">>,
                      <<escapedOldName, escapedNewName, escapedListName>>)),
            NilErr, calls_, lits)

renameTodoInList(listName, oldName, newName, ans) ==
  LET escapedListName == escapeSingleQuote(listName)
      escapedOldName == escapeSingleQuote(oldName)
      escapedNewName == escapeSingleQuote(newName)
      jxaScript == Sprintf(renameTemplate,
                           <<escapedListName, escapedOldName, escapedNewName>>)
      calls_ == <<ExecuteJXA(jxaScript, ans)>>
      lits == <<Lit(escapedListName, "'"), Lit(escapedOldName, "'"),
                Lit(escapedNewName, "'")>>
      outputStr == TrimSpace(ans.out)
  IN IF ~ans.err.isNil
     THEN RetResult(ZeroResult, Errorf("error running JXA script: ", ans.err), calls_, lits)
     ELSE IF HasPrefix(outputStr, "ERROR:")
     THEN IF Contains(outputStr, "not found in list")
          THEN RetResult(
                 OperationResult(FALSE,
                   Sprintf(<<"ERROR: To-do \"", "\" not found in list \"", "\"">>,
                           <<oldName, listName>>)),
                 NilErr, calls_, lits)
          ELSE RetResult(
                 OperationResult(FALSE,
                   Sprintf(<<"ERROR: List \"", "\" not found">>, <<listName>>)),
                 NilErr, calls_, lits)
     ELSE RetResult(
            OperationResult(TRUE,
              Sprintf(<<"To-do \"", "\" renamed to \"", "\" in list \"", "\"!">>,
                      <<oldName, newName, listName>>)),
            NilErr, calls_, lits)

----------------------------------------------------------------------------
\* logCompletedNow

\* logCompletedNow running its script a second time after a failure
logCompletedNowRetrying(ans) ==
  LET outputStr == TrimSpace(ans.out)
  IN IF ~ans.err.isNil
     THEN RetTodos(NilTodos, Errorf("error running JXA script: ", ans.err),
                   <<ExecuteJXA(logCompletedScript, ans), ExecuteJXA(logCompletedScript, ans)>>,
                   <<>>)
     ELSE IF HasPrefix(outputStr, "ERROR:")
     THEN RetTodos(NilTodos, Error(outputStr),
                   <<ExecuteJXA(logCompletedScript, ans), ExecuteJXA(logCompletedScript, ans)>>,
                   <<>>)
     ELSE RetTodos(NilTodos, NilErr, <<ExecuteJXA(logCompletedScript, ans)>>, <<>>)

logCompletedNow(ans) ==
  LET calls_ == <<ExecuteJXA(logCompletedScript, ans)>>
      outputStr == TrimSpace(ans.out)
  IN IF ~ans.err.isNil
     THEN RetTodos(NilTodos, Errorf("error running JXA script: ", ans.err), calls_, <<>>)
     ELSE IF HasPrefix(outputStr, "ERROR:")
     THEN RetTodos(NilTodos, Error(outputStr), calls_, <<>>)
     ELSE RetTodos(NilTodos, NilErr, calls_, <<>>)

----------------------------------------------------------------------------------------------------------------------------------------------------
\* calculateStartDate, parseDateFilter (now is time.Now(), an instant in the
\* local location; loc is time.Local)

\* time.Date(t.Year(), t.Month(), t.Day(), 0, 0, 0, 0, loc)
Midnight(t, loc) == Date(Year(t), Month(t), Day(t), loc)

\* calculateStartDate with the week starting on Monday
calculateStartDateMonday(filter, now) ==
  CASE filter = "today" -> Midnight(now, now.off)
    [] filter = "this week" ->
         Midnight(AddDate(now, 0 - ((Weekday(now) + 6) % 7)), now.off)
    [] filter = "this month" -> Date(Year(now), Month(now), 1, now.off)
    [] OTHER -> ZeroTime

\* calculateStartDate giving now for a token that is no keyword
calculateStartDateDefaultNow(filter, now) ==
  CASE filter = "today" -> Midnight(now, now.off)
    [] filter = "this week" -> Midnight(AddDate(now, 0 - Weekday(now)), now.off)
    [] filter = "this month" -> Date(Year(now), Month(now), 1, now.off)
    [] OTHER -> now

calculateStartDate(filter, now) ==
  CASE filter = "today" -> Midnight(now, now.off)
    [] filter = "this week" -> Midnight(AddDate(now, 0 - Weekday(now)), now.off)
    [] filter = "this month" -> Date(Year(now), Month(now), 1, now.off)
    [] OTHER -> ZeroTime

\* the end of parseDateFilter: p is what time.Parse made of the filter
returnDate(filter, p, loc) ==
  IF ~p.ok
  THEN [startTime |-> ZeroTime, isSingleDay |-> FALSE,
        err |-> Error("invalid date format: " \o filter)]
  ELSE [startTime |-> Midnight(p.t, loc), isSingleDay |-> TRUE, err |-> NilErr]

parseDateFilter(filter, now, loc) ==
  IF filter = "today" \/ filter = "this week" \/ filter = "this month"
  THEN [startTime |-> calculateStartDate(filter, now), isSingleDay |-> FALSE, err |-> NilErr]
  ELSE returnDate(filter, ParseDate(filter), loc)

----------------------------------------------------------------------------
\* getCompletedTodos, getCompletedTodosFiltered

\* AppendKept with a slice made before the loop
AppendKeptAllocated(kept) == Slice(kept)

\* var filtered []Todo; for ... { if keep { filtered = append(filtered, todo) } }:
\* nil until something is appended
\* (kept: the items the loop appends, in their order)
AppendKept(kept) == IF Len(kept) = 0 THEN NilTodos ELSE Slice(kept)

\* inDay with the next midnight taken into the day
inDayInclusive(todo, startDate, endOfDay, loc) ==
  /\ ~todo.CompletionDate.isNil
  /\ ~Before(In(todo.CompletionDate.t, loc), startDate)
  /\ ~Before(endOfDay, In(todo.CompletionDate.t, loc))

\* the single-day test of getCompletedTodos
inDay(todo, startDate, endOfDay, loc) ==
  /\ ~todo.CompletionDate.isNil
  /\ ~Before(In(todo.CompletionDate.t, loc), startDate)
  /\ Before(In(todo.CompletionDate.t, loc), endOfDay)

\* keepCompleted with the single-day test applied to every filter
keepCompletedAlways(fetched, c, startDate, isSingleDay, loc) ==
  IF ~fetched.err.isNil THEN RetTodos(NilTodos, fetched.err, c, fetched.interp)
  ELSE RetTodos(AppendKept(SelectSeq(fetched.todos.items,
                  LAMBDA todo : inDay(todo, startDate, AddDate(startDate, 1), loc))),
                NilErr, c, fetched.interp)

\* getCompletedTodos after its fetch of the Logbook
keepCompleted(fetched, c, startDate, isSingleDay, loc) ==
  IF ~fetched.err.isNil THEN RetTodos(NilTodos, fetched.err, c, fetched.interp)
  ELSE IF isSingleDay
  THEN RetTodos(AppendKept(SelectSeq(fetched.todos.items,
                   LAMBDA todo : inDay(todo, startDate, AddDate(startDate, 1), loc))),
                NilErr, c, fetched.interp)
  ELSE RetTodos(fetched.todos, NilErr, c, fetched.interp)

\* the fetch of getCompletedTodos, with the calls of both steps in order
fetchLogbook(fetched, logged, startDate, isSingleDay, loc) ==
  keepCompleted(fetched, logged.calls \o fetched.calls, startDate, isSingleDay, loc)

\* fetchCompleted going on to the fetch after housekeeping failed
fetchCompletedRegardless(logged, parsed, loc, ans2) ==
  IF ~parsed.err.isNil THEN RetTodos(NilTodos, parsed.err, logged.calls, <<>>)
  ELSE fetchLogbook(
         getTodosFromListWithFilter("Logbook", FormatRFC3339(parsed.startTime), ans2),
         logged, parsed.startTime, parsed.isSingleDay, loc)

\* fetchCompleted fetching the Logbook without a lower bound
fetchCompletedNoBound(logged, parsed, loc, ans2) ==
  IF ~logged.err.isNil THEN RetTodos(NilTodos, logged.err, logged.calls, <<>>)
  ELSE IF ~parsed.err.isNil THEN RetTodos(NilTodos, parsed.err, logged.calls, <<>>)
  ELSE fetchLogbook(getTodosFromListWithFilter("Logbook", "", ans2),
                    logged, parsed.startTime, parsed.isSingleDay, loc)

\* fetchCompleted looking at the token before the outcome of housekeeping
fetchCompletedTokenFirst(logged, parsed, loc, ans2) ==
  IF ~parsed.err.isNil THEN RetTodos(NilTodos, parsed.err, logged.calls, <<>>)
  ELSE IF ~logged.err.isNil THEN RetTodos(NilTodos, logged.err, logged.calls, <<>>)
  ELSE fetchLogbook(
         getTodosFromListWithFilter("Logbook", FormatRFC3339(parsed.startTime), ans2),
         logged, parsed.startTime, parsed.isSingleDay, loc)

\* getCompletedTodos after logCompletedNow (logged) and parseDateFilter (parsed)
fetchCompleted(logged, parsed, loc, ans2) ==
  IF ~logged.err.isNil THEN RetTodos(NilTodos, logged.err, logged.calls, <<>>)
  ELSE IF ~parsed.err.isNil THEN RetTodos(NilTodos, parsed.err, logged.calls, <<>>)
  ELSE fetchLogbook(
         getTodosFromListWithFilter("Logbook", FormatRFC3339(parsed.startTime), ans2),
         logged, parsed.startTime, parsed.isSingleDay, loc)

getCompletedTodos(dateFilter, now, loc, ans1, ans2) ==
  fetchCompleted(logCompletedNow(ans1), parseDateFilter(dateFilter, now, loc), loc, ans2)

\* matches with one matching filter being enough
matchesEither(todo, areaFilter, projectFilter) ==
  \/ areaFilter = "" /\ projectFilter = ""
  \/ areaFilter # "" /\ todo.Area = areaFilter
  \/ projectFilter # "" /\ todo.Project = projectFilter

\* the area and project test of getCompletedTodosFiltered
matches(todo, areaFilter, projectFilter) ==
  /\ ~(areaFilter # "" /\ todo.Area # areaFilter)
  /\ ~(projectFilter # "" /\ todo.Project # projectFilter)

\* getCompletedTodosFiltered after getCompletedTodos (got)
filterCompleted(got, areaFilter, projectFilter) ==
  IF ~got.err.isNil THEN RetTodos(NilTodos, got.err, got.calls, got.interp)
  ELSE IF areaFilter = "" /\ projectFilter = "" THEN got
  ELSE RetTodos(AppendKept(SelectSeq(got.todos.items,
                   LAMBDA todo : matches(todo, areaFilter, projectFilter))),
                NilErr, got.calls, got.interp)

getCompletedTodosFiltered(dateFilter, areaFilter, projectFilter, now, loc, ans1, ans2) ==
  filterCompleted(getCompletedTodos(dateFilter, now, loc, ans1, ans2),
                  areaFilter, projectFilter)
----------------------------------------------------------------------------
\* getStatusSymbol, formatTodosForDisplay (formatters.go)

\* the symbols of the three statuses. The source's glyphs are written here by
\* their code points: U+25CB, U+2714 with U+FE0E, U+2715; each is followed by
\* a space, as in the source
symbolOpen == "<U+25CB> "
symbolCompleted == "<U+2714><U+FE0E> "
symbolCanceled == "<U+2715> "

\* getStatusSymbol with one mark for completed and canceled
getStatusSymbolOneMark(status) ==
  CASE status = "open" -> symbolOpen
    [] status = "completed" -> symbolCompleted
    [] status = "canceled" -> symbolCompleted
    [] OTHER -> ""

getStatusSymbol(status) ==
  CASE status = "open" -> symbolOpen
    [] status = "completed" -> symbolCompleted
    [] status = "canceled" -> symbolCanceled
    [] OTHER -> ""

\* writeTodos with a newline after every item
RECURSIVE writeTodosTrailing(_, _)
writeTodosTrailing(items, i) ==
  IF i > Len(items) THEN ""
  ELSE getStatusSymbol(items[i].Status) \o items[i].Name \o "\n"
         \o writeTodosTrailing(items, i + 1)

\* the loop of formatTodosForDisplay from index i on (1-based): what it writes
\* to the strings.Builder
RECURSIVE writeTodos(_, _)
writeTodos(items, i) ==
  IF i > Len(items) THEN ""
  ELSE getStatusSymbol(items[i].Status) \o items[i].Name
         \o (IF i < Len(items) THEN "\n" ELSE "")
         \o writeTodos(items, i + 1)

formatTodosForDisplay(list) == writeTodos(list.items, 1)


----------------------------------------------------------------------------
\* formatTodoAsJSONL (formatters.go): json.Marshal of a Todo

\* what json.Marshal writes for one character of a string: the quote and the
\* backslash behind a backslash, the control characters by their letter, and
\* the characters <, > and & by their code points (HTML escaping is on)
EscapeChar(c) ==
  CASE c = "\"" -> "\\\""
    [] c = "\\" -> "\\\\"
    [] c = "\n" -> "\\n"
    [] c = "\r" -> "\\r"
    [] c = "\t" -> "\\t"
    [] c = "<" -> "\\u003c"
    [] c = ">" -> "\\u003e"
    [] c = "&" -> "\\u0026"
    [] OTHER -> c

RECURSIVE EscapeString(_)
EscapeString(s) ==
  IF Len(s) = 0 THEN "" ELSE EscapeChar(At(s, 1)) \o EscapeString(Sub(s, 2, Len(s)))

\* a Go string as a JSON string
MarshalString(s) == "\"" \o EscapeString(s) \o "\""

\* texts with sep between them
RECURSIVE Join(_, _)
Join(texts, sep) ==
  IF Len(texts) = 0 THEN ""
  ELSE IF Len(texts) = 1 THEN texts[1]
  ELSE texts[1] \o sep \o Join(Tail(texts), sep)

\* a []string as a JSON array
MarshalStrings(a) ==
  "[" \o Join([i \in 1..Len(a) |-> MarshalString(a[i])], ",") \o "]"

\* digits without the zeros at their end
RECURSIVE TrimZeros(_)
TrimZeros(digits) ==
  IF Len(digits) > 0 /\ At(digits, Len(digits)) = "0"
  THEN TrimZeros(Sub(digits, 1, Len(digits) - 1)) ELSE digits

\* FormatFraction that writes no fraction
FormatFractionNone(nsec) == ""

\* the fraction of RFC3339Nano: nothing for 0, else a dot and up to nine digits
FormatFraction(nsec) == IF nsec = 0 THEN "" ELSE "." \o TrimZeros(Pad(nsec, 9))

\* t.Format(time.RFC3339Nano) = "2006-01-02T15:04:05.999999999Z07:00"
FormatRFC3339Nano(t) ==
  FormatWall(CivilFromDays(WallDay(t)), WallSec(t)) \o FormatFraction(t.nsec)
    \o FormatZone(t.off)

\* time.Time.MarshalJSON refuses a year outside 0..9999
MarshalsTime(p) == p.isNil \/ Year(p.t) \in 0..9999

\* one member of a JSON object: the key and the text of its value
Member(key, text) == "\"" \o key \o "\":" \o text

\* the members of the fields tagged omitempty: none for the empty string, the
\* nil pointer, the slice of length 0
OmitEmptyString(key, s) == IF s = "" THEN <<>> ELSE <<Member(key, MarshalString(s))>>

OmitEmptyTime(key, p) ==
  IF p.isNil THEN <<>> ELSE <<Member(key, "\"" \o FormatRFC3339Nano(p.t) \o "\"")>>

OmitEmptyStrings(key, a) == IF Len(a) = 0 THEN <<>> ELSE <<Member(key, MarshalStrings(a))>>

\* MarshalMembers with notes written whether empty or not
MarshalMembersAllNotes(todo) ==
  <<Member("name", MarshalString(todo.Name)), Member("notes", MarshalString(todo.Notes)),
    Member("status", MarshalString(todo.Status))>>
    \o OmitEmptyTime("creationDate", todo.CreationDate)
    \o OmitEmptyTime("modificationDate", todo.ModificationDate)
    \o OmitEmptyTime("dueDate", todo.DueDate)
    \o OmitEmptyTime("completionDate", todo.CompletionDate)
    \o OmitEmptyTime("cancellationDate", todo.CancellationDate)
    \o OmitEmptyStrings("tagNames", todo.TagNames)
    \o OmitEmptyString("area", todo.Area)
    \o OmitEmptyString("project", todo.Project)

\* the members of a Todo, in the order of the struct's fields
MarshalMembers(todo) ==
  <<Member("name", MarshalString(todo.Name))>>
    \o OmitEmptyString("notes", todo.Notes)
    \o <<Member("status", MarshalString(todo.Status))>>
    \o OmitEmptyTime("creationDate", todo.CreationDate)
    \o OmitEmptyTime("modificationDate", todo.ModificationDate)
    \o OmitEmptyTime("dueDate", todo.DueDate)
    \o OmitEmptyTime("completionDate", todo.CompletionDate)
    \o OmitEmptyTime("cancellationDate", todo.CancellationDate)
    \o OmitEmptyStrings("tagNames", todo.TagNames)
    \o OmitEmptyString("area", todo.Area)
    \o OmitEmptyString("project", todo.Project)

\* json.Marshal(todo): the text, or the error of a date it cannot write
Marshal(todo) ==
  IF /\ MarshalsTime(todo.CreationDate) /\ MarshalsTime(todo.ModificationDate)
     /\ MarshalsTime(todo.DueDate) /\ MarshalsTime(todo.CompletionDate)
     /\ MarshalsTime(todo.CancellationDate)
  THEN [err |-> NilErr, text |-> "{" \o Join(MarshalMembers(todo), ",") \o "}"]
  ELSE [err |-> Error("json: error calling MarshalJSON for type *time.Time: Time.MarshalJSON: year outside of range [0,9999]"),
        text |-> ""]

\* formatTodoAsJSONL after json.Marshal
returnLine(m) ==
  IF ~m.err.isNil THEN [line |-> "", err |-> Errorf("error marshaling todo: ", m.err)]
  ELSE [line |-> m.text, err |-> NilErr]

formatTodoAsJSONL(todo) == returnLine(Marshal(todo))
----------------------------------------------------------------------------
\* The commands (main.go): what the Action of each command returns to
\* cmd.Run and what it writes to standard output.

\* the error of an Action: nil, an error as the operation returned it, or
\* cli.Exit(message, code), which is a cli.ExitCoder
NoError == [isNil |-> TRUE, msg |-> "", exitCoder |-> FALSE, code |-> 0]
PlainError(e) == [isNil |-> FALSE, msg |-> e.msg, exitCoder |-> FALSE, code |-> 0]
Exit(message, code) == [isNil |-> FALSE, msg |-> message, exitCoder |-> TRUE, code |-> code]

\* what a command did: the error of its Action, what it wrote to standard
\* output, and what the operation it called returned (got)
Done(e, out, got) == [exit |-> e, out |-> out, got |-> got]

\* fmt.Println(text)
Println(text) == text \o "\n"

\* formatOperationResult
formatOperationResult(r) == r.Message

\* the hint of show. The source writes things list between two grave
\* accents, a character TLA+ strings cannot hold: it is written here by its
\* code point
listHint == "\nUse <U+0060>things list<U+0060> to see available lists."

\* the loop of --jsonl from item i on (1-based), after the output out:
\* printLine is the body of the loop once formatTodoAsJSONL has returned r
RECURSIVE printLines(_, _, _, _), printLine(_, _, _, _, _)
printLine(r, items, i, out, got) ==
  IF ~r.err.isNil THEN Done(PlainError(r.err), out, got)
  ELSE printLines(items, i + 1, out \o Println(r.line), got)

printLines(items, i, out, got) ==
  IF i > Len(items) THEN Done(NoError, out, got)
  ELSE printLine(formatTodoAsJSONL(items[i]), items, i, out, got)

\* the Action of show and of log after a fetch without error
printTodos(got, jsonl) ==
  IF jsonl THEN printLines(got.todos.items, 1, "", got)
  ELSE Done(NoError, Println(formatTodosForDisplay(got.todos)), got)

\* fetchedAction with every error of the fetch taken for an exit
fetchedActionAllExit(got, jsonl, hint) ==
  IF ~got.err.isNil THEN Done(Exit(got.err.msg \o hint, 1), "", got)
  ELSE printTodos(got, jsonl)

\* the Action of show and of log after the fetch (got)
fetchedAction(got, jsonl, hint) ==
  IF ~got.err.isNil
  THEN IF HasPrefix(got.err.msg, "ERROR:")
       THEN Done(Exit(got.err.msg \o hint, 1), "", got)
       ELSE Done(PlainError(got.err), "", got)
  ELSE printTodos(got, jsonl)

showCommand(listName, jsonl, ans) ==
  fetchedAction(getTodosFromList(listName, ans), jsonl, listHint)

\* the Action of add, delete, move and rename after the operation (got)
mutatedAction(got) ==
  IF ~got.err.isNil THEN Done(PlainError(got.err), "", got)
  ELSE IF ~got.result.Success THEN Done(Exit(got.result.Message, 1), "", got)
  ELSE Done(NoError, Println(formatOperationResult(got.result)), got)

addCommand(listName, todoName, tags, ans) ==
  mutatedAction(addTodoToList(listName, todoName, tags, ans))

deleteCommand(listName, todoName, ans) ==
  mutatedAction(deleteTodoFromList(listName, todoName, ans))

moveCommand(fromList, toList, todoName, ans) ==
  mutatedAction(moveTodoBetweenLists(fromList, toList, todoName, ans))

renameCommand(listName, todoName, newName, ans) ==
  mutatedAction(renameTodoInList(listName, todoName, newName, ans))

\* dateFilterValid that lets a date of the calendar through
dateFilterValidOrDate(dateFilter) ==
  dateFilter \in {"today", "this week", "this month"} \/ ParseDate(dateFilter).ok

\* what --date must be one of
dateFilterValid(dateFilter) ==
  ~(dateFilter # "today" /\ dateFilter # "this week" /\ dateFilter # "this month")

\* the Action of log
logCommand(dateFilter, jsonl, now, loc, ans1, ans2) ==
  IF ~dateFilterValid(dateFilter)
  THEN Done(Exit("ERROR: --date must be one of: today, this week, this month", 1), "",
            Ret(ZeroResult, NilTodos, NilErr, <<>>, <<>>))
  ELSE fetchedAction(getCompletedTodos(dateFilter, now, loc, ans1, ans2), jsonl, "")
----------------------------------------------------------------------------
\* The clock and the filters of the completed-items flow.

\* every answer of the executor with one of the outputs outs
Answers(outs) == {Answer(out, e) : out \in outs, e \in ExecErrs}

\* time.Local, as seconds east of UTC
Locs == {-18000, 0, 19800}

\* the wall clock y-m-d h:mi:s of location loc, as an instant in loc
Clock(y, m, d, h, mi, s, loc) ==
  Normal(DaysFromCivil(y, m, d), h * 3600 + mi * 60 + s - loc, 0, loc)

\* time.Now(): a Wednesday morning, the last second of a Sunday that is also
\* the last day of a month, and the first instant of a month
Nows(loc) ==
  { Clock(2024, 1, 17, 9, 30, 0, loc), Clock(2024, 3, 31, 23, 59, 59, loc),
    Clock(2024, 5, 1, 0, 0, 0, loc) }

\* the --date tokens: the keywords, dates, and tokens that are neither
DateFilters ==
  {"today", "this week", "this month", "2024-01-15", "2024-02-29",
   "yesterday", "15-01-2024", "2024-13-01", "2023-02-29", ""}

AreaFilters == {"", "Work"}
ProjectFilters == {"", "Home"}


----------------------------------------------------------------------------
\* The inputs of the functions that are run on their own.

\* tokens for parseDateFilter: those of DateFilters, and more that are neither
\* a keyword nor a date
DateTokens ==
  DateFilters \cup {"2024-01", "Today", " today", "this  week", "2024-1-15",
                    "2024-02-30", "2024-01-15 ", "2024-01-15T00:00:00Z", "2024/01/15"}

\* filters for calculateStartDate: the keywords and one that is none
StartFilters == {"today", "this week", "this month", "yesterday"}

\* the number of consecutive days the instants of calculateStartDate span
MaxDays == 14

\* time.Now() for calculateStartDate: the first, a middle and the last second
\* of MaxDays + 1 consecutive days from 2024-02-24 on (they hold every day of
\* the week, a leap day and the turn of a month)
Instants(loc) ==
  { Normal(DaysFromCivil(2024, 2, 24) + k, s - loc, 0, loc) :
      k \in 0..MaxDays, s \in {0, 34200, 86399} }

\* statuses for getStatusSymbol: the three of Things, and others
Statuses == {"open", "completed", "canceled", "", "done", "Open", "cancelled", "open "}

\* the longest list formatTodosForDisplay is run on
MaxTodos == 2

\* the items of those lists: two names, four statuses
SampleTodos ==
  { [ZeroTodo EXCEPT !.Name = n, !.Status = s] :
      n \in {"Buy milk", "A"}, s \in {"open", "completed", "canceled", "done"} }

RECURSIVE TodosOfLen(_)
TodosOfLen(n) ==
  IF n = 0 THEN {<<>>} ELSE {Append(s, t) : s \in TodosOfLen(n - 1), t \in SampleTodos}

\* []Todo values: nil, and every list of at most MaxTodos sample items
TodoLists == {NilTodos} \cup {Slice(s) : s \in UNION {TodosOfLen(n) : n \in 0..MaxTodos}}

\* the Todo values formatTodoAsJSONL is run on: what the decoder can hand it.
\* Names and notes with the characters json.Marshal escapes, dates with and
\* without a fraction and an offset, the zero time, tags with a comma and an
\* empty one
LineNames == {"Buy milk", "a\"b\\c", "<b> & 'c'\n\td"}
LineNotes == {"", "one\ntwo"}
LineDates ==
  {NilTime, PtrTime(ZeroTime),
   PtrTime(Normal(DaysFromCivil(2024, 1, 15), 86399 - 19800, 120000000, 19800)),
   PtrTime(Normal(DaysFromCivil(2024, 2, 29), 43200 + 18000, 999999999, -18000))}
LineTags == {<<>>, <<"x", "y">>, <<"a,b", "">>}

LineTodos ==
  { [Name |-> n, Notes |-> no, Status |-> st,
     CreationDate |-> NilTime, ModificationDate |-> NilTime, DueDate |-> du,
     CompletionDate |-> co, CancellationDate |-> NilTime,
     TagNames |-> tg, Area |-> ar, Project |-> ""] :
      n \in LineNames, no \in LineNotes, st \in {"open", "completed"},
      du \in {NilTime, PtrTime(ZeroTime)}, co \in LineDates, tg \in LineTags,
      ar \in {"", "Work"} }
    \cup { [ZeroTodo EXCEPT !.Name = "all", !.Status = "canceled",
              !.CreationDate = d, !.ModificationDate = d, !.DueDate = d,
              !.CompletionDate = d, !.CancellationDate = d, !.Project = "Home"] :
             d \in LineDates }

\* the inputs of the commands: --tags (empty when the flag is not given) and
\* the location of the machine
CommandTags == {"", "Home, Work"}
CommandLocs == {-18000}
----------------------------------------------------------------------------
\* What the claims speak of, read from the state after a run.

\* the mutating operations, the operations that call the executor once, and
\* the completed-items flows
Mutating == {"add", "delete", "move", "rename"}
SingleCall == Mutating \cup {"list", "housekeeping"}
CompletedFlow == {"completed", "completedFiltered"}

\* the k-th executor call's trimmed output, and whether the call failed: by an
\* executor error or by an output with the sentinel prefix
TrimmedOutput(k) == TrimSpace(calls[k].out)
ExecFailed(k) == ~calls[k].err.isNil
SentinelOutput(k) == HasPrefix(TrimmedOutput(k), "ERROR:")
CallFailed(k) == ExecFailed(k) \/ SentinelOutput(k)

\* the script of the k-th executor call (the argument after -e)
ScriptOf(k) == calls[k].argv[Len(calls[k].argv)]

\* whether text, read as the inside of a literal delimited by quote, holds the
\* delimiter unescaped from position i on (a backslash escapes the character
\* after it, another backslash too)
RECURSIVE UnescapedFrom(_, _, _)
UnescapedFrom(text, quote, i) ==
  IF i > Len(text) THEN FALSE
  ELSE IF At(text, i) = "\\" THEN UnescapedFrom(text, quote, i + 2)
  ELSE IF At(text, i) = quote THEN TRUE
  ELSE UnescapedFrom(text, quote, i + 1)

HasUnescaped(text, quote) == UnescapedFrom(text, quote, 1)

\* name between double quotes, as the messages show the caller's names
Quoted(name) == "\"" \o name \o "\""

\* the message names one of the caller's parameters
NamesParameter(message) == \E i \in 1..Len(args) : Contains(message, Quoted(args[i]))

----------------------------------------------------------------------------
\* C1 (as stated): for every input string, backslashes included, the escaped
\* text an operation puts into its script literal holds no unescaped occurrence
\* of the literal's quote delimiter, so the literal is never terminated early.
\* Violated: a backslash before a quote is left as it is, so \' becomes \\'.
C1_EscapedNeverTerminates ==
  \A k \in 1..Len(interp) : ~HasUnescaped(interp[k].text, interp[k].quote)

----------------------------------------------------------------------------
\* C2: for each mutating operation, an executor error gives a non-nil error
\* and no failure result (the zero OperationResult goes with it), whatever the
\* bytes; without an executor error the error is nil and the outcome, an
\* ERROR: output included, is told by Success and Message alone.
C2_HardErrorsOnlyFromExecutor ==
  op \in Mutating =>
    /\ ExecFailed(1) =>
         /\ ~err.isNil
         /\ HasPrefix(err.msg, "error running ")
         /\ result = ZeroResult
    /\ ~ExecFailed(1) =>
         /\ err.isNil
         /\ SentinelOutput(1) => ~result.Success /\ HasPrefix(result.Message, "ERROR:")

\* a delete whose executor error came together with ERROR: bytes
C2_Witness ==
  op = "delete" /\ ExecFailed(1) /\ SentinelOutput(1) /\ ~err.isNil /\ result = ZeroResult

----------------------------------------------------------------------------
\* C3 (as stated): a list fetch whose output is no valid JSON array of records
\* ends in an "error parsing JSON" error. Violated by the outputs null and
\* [null], which decode without error.
\* the trimmed texts of the payloads ps
Trimmed(ps) == {TrimSpace(p) : p \in ps}

C3_NonArrayIsParseError ==
  op = "list" /\ ~ExecFailed(1) /\ ~SentinelOutput(1) /\ TrimmedOutput(1) \notin Trimmed(RecordPayloads)
    => ~err.isNil /\ HasPrefix(err.msg, "error parsing JSON")

\* C3 (amended): a list fetch ends in exactly one of four outcomes, decided in
\* this order: executor error -> error starting "error running JXA script";
\* trimmed output starting "ERROR:" -> error that is the trimmed output; output
\* that is neither JSON null nor a JSON array whose elements are records or
\* null -> error starting "error parsing JSON"; otherwise success (null gives
\* the nil list). The error kinds differ by prefix and every error comes with
\* the nil list.
C3_FetchOutcomes ==
  op = "list" =>
    /\ Len(calls) = 1
    /\ IF ExecFailed(1)
       THEN ~err.isNil /\ HasPrefix(err.msg, "error running JXA script")
       ELSE IF SentinelOutput(1)
       THEN ~err.isNil /\ err.msg = TrimmedOutput(1)
       ELSE IF TrimmedOutput(1) \notin Trimmed(RecordPayloads \cup NullPayloads)
       THEN ~err.isNil /\ HasPrefix(err.msg, "error parsing JSON")
       ELSE err.isNil /\ (todos.isNil <=> TrimmedOutput(1) = "null")
    /\ ~err.isNil =>
         /\ todos = NilTodos
         /\ Cardinality({p \in {"error running JXA script", "ERROR:", "error parsing JSON"} :
                           HasPrefix(err.msg, p)}) = 1

\* a fetch that ended in the parsing error, for a text that is JSON but no array
C3_Witness ==
  /\ op = "list" /\ ~ExecFailed(1)
  /\ TrimmedOutput(1) = "{\"name\":\"x\",\"status\":\"open\"}"
  /\ HasPrefix(err.msg, "error parsing JSON: ") /\ todos = NilTodos

----------------------------------------------------------------------------
\* C4: in getCompletedTodos the housekeeping call is always the first executor
\* call and goes before the Logbook fetch; when housekeeping fails, by an
\* executor error or by an ERROR: output, getCompletedTodos returns that error
\* with a nil list and the fetch is never made.
C4_HousekeepingFirst ==
  op \in CompletedFlow =>
    /\ Len(calls) >= 1
    /\ calls[1].argv = <<"osascript", "-l", "JavaScript", "-e", logCompletedScript>>
    /\ \A k \in 2..Len(calls) : Contains(ScriptOf(k), "app.lists.byName('Logbook')")
    /\ CallFailed(1) =>
         /\ Len(calls) = 1
         /\ todos = NilTodos
         /\ ~err.isNil
         /\ err.msg = IF ExecFailed(1) THEN "error running JXA script: " \o calls[1].err.msg
                      ELSE TrimmedOutput(1)

\* a run whose housekeeping failed by its output alone
C4_Witness ==
  /\ op = "completed" /\ ~ExecFailed(1) /\ SentinelOutput(1)
  /\ Len(calls) = 1 /\ err.msg = "ERROR: Things.app is not running"

----------------------------------------------------------------------------
\* C5: list, add, delete, move, rename and housekeeping call the executor
\* exactly once; getCompletedTodos and getCompletedTodosFiltered call it at
\* most twice (housekeeping, then fetch), exactly twice on success; nothing
\* calls the executor again after an executor error or an ERROR: output.
C5_CallCounts ==
  /\ op \in SingleCall => Len(calls) = 1
  /\ op \in CompletedFlow =>
       /\ Len(calls) \in {1, 2}
       /\ err.isNil => Len(calls) = 2
  /\ \A k \in 1..Len(calls) : CallFailed(k) => k = Len(calls)

\* a completed-items run whose fetch failed after a good housekeeping call
C5_Witness ==
  op = "completed" /\ Len(calls) = 2 /\ ~CallFailed(1) /\ CallFailed(2) /\ ~err.isNil

----------------------------------------------------------------------------
\* C6 (as stated): a mutating operation returns a success OperationResult only
\* if the trimmed output equals the success token "SUCCESS". Violated: every
\* output without the ERROR: prefix is taken for success.
C6_SuccessOnlyOnToken ==
  op \in Mutating /\ result.Success => TrimmedOutput(1) = "SUCCESS"

\* C6 (amended): a mutating operation returns a success OperationResult exactly
\* when the executor returned no error and the trimmed output does not start
\* with "ERROR:"; the output need not be the success token.
C6_SuccessUnlessSentinel ==
  op \in Mutating => (result.Success <=> ~ExecFailed(1) /\ ~SentinelOutput(1))

\* a move that succeeded on an output that is not the token
C6_Witness ==
  /\ op = "move" /\ result.Success /\ err.isNil
  /\ TrimmedOutput(1) = "To-do added successfully to list \"Work\"!"

----------------------------------------------------------------------------
\* C7: a mutating operation that reports success renders its message from the
\* caller's own, unescaped parameters alone, whatever the bridge printed:
\* add -> To-do added successfully to list "L"!; delete -> To-do "T" deleted
\* successfully from list "L"!; move -> To-do "T" moved successfully from list
\* "A" to list "B"!; rename -> To-do "O" renamed to "N" in list "L"!.
C7_SuccessMessageFromParameters ==
  op \in Mutating /\ err.isNil /\ result.Success =>
    result.Message =
      CASE op = "add" ->
             "To-do added successfully to list " \o Quoted(args[1]) \o "!"
        [] op = "delete" ->
             "To-do " \o Quoted(args[2]) \o " deleted successfully from list "
               \o Quoted(args[1]) \o "!"
        [] op = "move" ->
             "To-do " \o Quoted(args[3]) \o " moved successfully from list "
               \o Quoted(args[1]) \o " to list " \o Quoted(args[2]) \o "!"
        [] op = "rename" ->
             "To-do " \o Quoted(args[2]) \o " renamed to " \o Quoted(args[3])
               \o " in list " \o Quoted(args[1]) \o "!"

\* a rename that succeeded, of a name with a quote in it (which the script
\* holds escaped), on an output other than the message
C7_Witness ==
  /\ op = "rename" /\ result.Success
  /\ args[2] = "a'" /\ interp[2].text = "a\\'"
  /\ TrimmedOutput(1) = "To-do added successfully to list \"Work\"!"

----------------------------------------------------------------------------
\* C8: for delete and rename, every trimmed output starting with "ERROR:"
\* gives Success = false with one of exactly two messages made of the caller's
\* parameters: ERROR: To-do "T" not found in list "L" when the output holds
\* "not found in list", ERROR: List "L" not found for every other ERROR:
\* output (for rename T is the old name).
C8_DeleteRenameFailureMessages ==
  op \in {"delete", "rename"} /\ ~ExecFailed(1) /\ SentinelOutput(1) =>
    /\ err.isNil
    /\ ~result.Success
    /\ result.Message =
         IF Contains(TrimmedOutput(1), "not found in list")
         THEN "ERROR: To-do " \o Quoted(args[2]) \o " not found in list " \o Quoted(args[1])
         ELSE "ERROR: List " \o Quoted(args[1]) \o " not found"

\* a delete whose ERROR: output says "not found" but not "not found in list"
C8_Witness ==
  /\ op = "delete" /\ ~ExecFailed(1) /\ TrimmedOutput(1) = "ERROR: To-do not found"
  /\ result.Message = "ERROR: List " \o Quoted(args[1]) \o " not found"

----------------------------------------------------------------------------
\* C9: for move, a trimmed output starting with "ERROR:" gives Success = false;
\* the message is ERROR: To-do "T" not found in list "FROM" when the output
\* holds "not found" (whichever entity was not found), and else the trimmed
\* output unchanged.
C9_MoveFailureMessages ==
  op = "move" /\ ~ExecFailed(1) /\ SentinelOutput(1) =>
    /\ err.isNil
    /\ ~result.Success
    /\ result.Message =
         IF Contains(TrimmedOutput(1), "not found")
         THEN "ERROR: To-do " \o Quoted(args[3]) \o " not found in list " \o Quoted(args[1])
         ELSE TrimmedOutput(1)

\* a move whose output says that a list was not found
C9_Witness ==
  /\ op = "move" /\ ~ExecFailed(1) /\ TrimmedOutput(1) = "ERROR: List not found"
  /\ result.Message = "ERROR: To-do " \o Quoted(args[3]) \o " not found in list "
                        \o Quoted(args[1])

----------------------------------------------------------------------------
\* C10 (as stated): every OperationResult a mutating operation returns (with a
\* nil error) has a non-empty message, and when Success is false the message
\* begins with "ERROR:" and names the list or task the caller supplied.
\* Violated: add, and move without "not found", hand on the bridge's text.
C10_FailureNamesParameter ==
  op \in Mutating /\ err.isNil =>
    /\ result.Message # ""
    /\ ~result.Success => HasPrefix(result.Message, "ERROR:") /\ NamesParameter(result.Message)

\* C10 (amended): every OperationResult a mutating operation returns with a
\* nil error has a non-empty message, and when Success is false the message
\* begins with "ERROR:"; it names the caller's list or task for delete and
\* rename, and for move when the output holds "not found"; for add, and for
\* move otherwise, it is the trimmed output of the bridge.
C10_FailureMessages ==
  op \in Mutating /\ err.isNil =>
    /\ result.Message # ""
    /\ ~result.Success =>
         /\ HasPrefix(result.Message, "ERROR:")
         /\ IF op = "add" \/ (op = "move" /\ ~Contains(TrimmedOutput(1), "not found"))
            THEN result.Message = TrimmedOutput(1)
            ELSE NamesParameter(result.Message)

\* an add that failed with a message that names neither the list nor the task
C10_Witness ==
  /\ op = "add" /\ err.isNil /\ ~result.Success
  /\ result.Message = "ERROR: can't get object" /\ ~NamesParameter(result.Message)

----------------------------------------------------------------------------
\* The completed-items flow, read from the state after a run.

\* the keyword filters
Keywords == {"today", "this week", "this month"}

\* the number of days from 1970-01-01 to the dates among the filters
EpochDay(date) ==
  CASE date = "2024-01-15" -> 19737
    [] date = "2024-02-29" -> 19782

\* the filters that are dates of the calendar
CalendarDates == {"2024-01-15", "2024-02-29"}

\* the list the k-th executor call's output decodes to
Fetched(k) == Unmarshal(TrimmedOutput(k)).todos

\* the k-th executor call's answer
AnswerOf(k) == [out |-> calls[k].out, err |-> calls[k].err]

\* an instant in seconds since 1970-01-01 00:00:00 UTC
UnixSeconds(t) == t.day * 86400 + t.sec

\* todo was completed in the day that starts at local midnight of date in loc:
\* start <= c < start + 1 day
CompletedOn(todo, date, loc) ==
  /\ ~todo.CompletionDate.isNil
  /\ UnixSeconds(todo.CompletionDate.t) >= EpochDay(date) * 86400 - loc
  /\ UnixSeconds(todo.CompletionDate.t) < EpochDay(date) * 86400 - loc + 86400

\* the names of items, in their order
Names(items) == [i \in 1..Len(items) |-> items[i].Name]

----------------------------------------------------------------------------
\* C11: for a YYYY-MM-DD filter getCompletedTodos returns exactly the fetched
\* items completed at an instant c with start <= c < start + 1 day (start the
\* local midnight of the date), in their fetched order: an item completed at
\* start is kept, one completed at or after the next midnight is dropped, and
\* one without a completion date is dropped.
C11_SingleDayWindow ==
  op = "completed" /\ err.isNil /\ args[1] \notin Keywords =>
    /\ args[1] \in CalendarDates
    /\ todos.items =
         SelectSeq(Fetched(2).items, LAMBDA todo : CompletedOn(todo, args[1], args[3]))

\* in the location five hours west, of the records completed at 2024-01-15
\* 00:00:00 local, at 2024-01-16 00:00:01 local and never, the first is kept
C11_Witness ==
  /\ op = "completed" /\ err.isNil /\ args[1] = "2024-01-15" /\ args[3] = -18000
  /\ Names(Fetched(2).items) = <<"A", "B", "C">>
  /\ Names(todos.items) = <<"A">>

----------------------------------------------------------------------------
\* C12: for a keyword filter (today, this week, this month) getCompletedTodos
\* puts no upper bound and filters nothing in process: it returns the list the
\* fetch returned, unchanged in content and order, items without a completion
\* date or completed outside the window included.
C12_KeywordUnfiltered ==
  op = "completed" /\ err.isNil /\ args[1] \in Keywords => todos = Fetched(2)

\* "today" on 2024-05-01 with records completed in January and one never
C12_Witness ==
  /\ op = "completed" /\ err.isNil /\ args[1] = "today"
  /\ WallDay(args[2]) = 19844
  /\ Names(todos.items) = <<"A", "B", "C">>
  /\ todos.items[3].CompletionDate.isNil

----------------------------------------------------------------------------
\* C13: parseDateFilter classifies every token: exactly today, this week and
\* this month give a keyword window (isSingleDay false); a token that is a
\* YYYY-MM-DD date of the calendar gives the local midnight of that date with
\* isSingleDay true; every other token fails with "invalid date format: " and
\* the token.
C13_TokenClasses ==
  op = "parseDateFilter" =>
    IF args[1] \in Keywords
    THEN /\ err.isNil
         /\ ~ret.isSingleDay
         /\ ret.startTime = calculateStartDate(args[1], args[2])
    ELSE IF args[1] \in CalendarDates
    THEN /\ err.isNil
         /\ ret.isSingleDay
         /\ ret.startTime.off = args[3]
         /\ ret.startTime.nsec = 0
         /\ UnixSeconds(ret.startTime) = EpochDay(args[1]) * 86400 - args[3]
    ELSE /\ err = Error("invalid date format: " \o args[1])
         /\ ~ret.isSingleDay

\* a token of the right shape that is no date of the calendar
C13_Witness ==
  /\ op = "parseDateFilter" /\ args[1] = "2024-13-01"
  /\ err.msg = "invalid date format: 2024-13-01"

----------------------------------------------------------------------------
\* C14: for every current instant the start of "this week" is the local
\* midnight of the most recent Sunday: a Sunday, not after now, less than 7
\* days before now, and today's midnight when today is a Sunday. The start of
\* "today" is the local midnight of the current day, the start of "this month"
\* the local midnight of day 1 of the current month. (Locations are fixed
\* offsets; day 0 of the epoch was a Thursday; 2024-02-01 is day 19754 and
\* 2024-03-01 day 19783.)
LocalMidnight(t) == WallSec(t) = 0 /\ t.nsec = 0

C14_PeriodStarts ==
  op = "calculateStartDate" /\ args[1] \in Keywords =>
    /\ LocalMidnight(ret)
    /\ ret.off = args[2].off
    /\ ~Before(args[2], ret)
    /\ args[1] = "today" => WallDay(ret) = WallDay(args[2])
    /\ args[1] = "this week" =>
         /\ (WallDay(ret) + 4) % 7 = 0
         /\ WallDay(args[2]) - WallDay(ret) \in 0..6
         /\ UnixSeconds(args[2]) - UnixSeconds(ret) < 7 * 86400
         /\ (WallDay(args[2]) + 4) % 7 = 0 => WallDay(ret) = WallDay(args[2])
    /\ args[1] = "this month" =>
         WallDay(ret) = IF WallDay(args[2]) < 19783 THEN 19754 ELSE 19783

\* "this week" in the last second of Sunday 2024-03-03
C14_Witness ==
  /\ op = "calculateStartDate" /\ args[1] = "this week"
  /\ WallDay(args[2]) = 19785 /\ WallSec(args[2]) = 86399
  /\ WallDay(ret) = 19785

----------------------------------------------------------------------------
\* C15: getCompletedTodosFiltered keeps exactly the date-filtered items t with
\* (areaFilter empty or t.Area = areaFilter) and (projectFilter empty or
\* t.Project = projectFilter), in their order; with both filters empty the
\* date-filtered list is returned unchanged.
DateFiltered == getCompletedTodos(args[1], args[4], args[5], AnswerOf(1), AnswerOf(2)).todos

C15_AreaProjectFilter ==
  op = "completedFiltered" /\ err.isNil =>
    /\ args[2] = "" /\ args[3] = "" => todos = DateFiltered
    /\ todos.items =
         SelectSeq(DateFiltered.items,
                   LAMBDA t : /\ args[2] = "" \/ t.Area = args[2]
                              /\ args[3] = "" \/ t.Project = args[3])

\* the area Work and no project, on two records of Work and one of Personal
C15_Witness ==
  /\ op = "completedFiltered" /\ err.isNil /\ args[2] = "Work" /\ args[3] = ""
  /\ Names(DateFiltered.items) = <<"A", "B", "C">>
  /\ Names(todos.items) = <<"A", "B">>

----------------------------------------------------------------------------
\* C16: getStatusSymbol is total: open, completed and canceled give three
\* non-empty symbols, no two of them the same, and every other string, the
\* empty one too, gives the empty string.
ThingsStatuses == {"open", "completed", "canceled"}

C16_StatusSymbolTotal ==
  /\ \A s1, s2 \in ThingsStatuses : s1 # s2 => getStatusSymbol(s1) # getStatusSymbol(s2)
  /\ op = "getStatusSymbol" => (ret # "" <=> args[1] \in ThingsStatuses)

\* a status that differs from a valid one by the case of a letter
C16_Witness == op = "getStatusSymbol" /\ args[1] = "Open" /\ ret = ""

----------------------------------------------------------------------------
\* C17 (as stated): every item a list-returning operation returns has a status
\* that is one of open, completed, canceled, whatever the payload holds.
\* Violated: the status of the payload is copied as it is, and a record
\* without a status gets the empty one.
ListReturning == {"list", "completed", "completedFiltered"}

C17_StatusEnumerated ==
  op \in ListReturning /\ err.isNil =>
    \A i \in 1..Len(todos.items) : todos.items[i].Status \in ThingsStatuses

----------------------------------------------------------------------------
\* C18: on success a list fetch returns one item per record of the payload, in
\* the payload's order, with the record's name and status; for a record that
\* carries a name and a status alone every optional field (notes, the five
\* dates, tag names, area, project) is empty or absent.

\* the records of the payloads, in their order: name, status, and whether the
\* record carries no other field of Todo
PayloadRecords(output) ==
  CASE output \in {"[]", "[ ]", "null"} -> <<>>
    [] output = "[null]" -> << <<"", "", TRUE>> >>
    [] output = oneRecord -> << <<"Buy groceries", "open", TRUE>> >>
    [] output = threeRecords ->
         << <<"A", "completed", FALSE>>, <<"B", "completed", FALSE>>,
            <<"C", "canceled", FALSE>> >>
    [] output = zoneRecords -> << <<"D", "completed", FALSE>>, <<"E", "done", TRUE>> >>
    [] output = boundaryRecords ->
         << <<"F", "completed", FALSE>>, <<"G", "completed", FALSE>>,
            <<"H", "completed", FALSE>>, <<"I", "completed", FALSE>> >>

C18_OneItemPerRecord ==
  op = "list" /\ err.isNil =>
    /\ Len(todos.items) = Len(PayloadRecords(TrimmedOutput(1)))
    /\ \A i \in 1..Len(todos.items) :
         /\ todos.items[i].Name = PayloadRecords(TrimmedOutput(1))[i][1]
         /\ todos.items[i].Status = PayloadRecords(TrimmedOutput(1))[i][2]
         /\ PayloadRecords(TrimmedOutput(1))[i][3] =>
              todos.items[i] =
                [Name |-> todos.items[i].Name, Notes |-> "",
                 Status |-> todos.items[i].Status,
                 CreationDate |-> NilTime, ModificationDate |-> NilTime,
                 DueDate |-> NilTime, CompletionDate |-> NilTime,
                 CancellationDate |-> NilTime, TagNames |-> <<>>,
                 Area |-> "", Project |-> ""]

\* the fetch of three records, whose second carries tags and a project
C18_Witness ==
  /\ op = "list" /\ err.isNil /\ TrimmedOutput(1) = threeRecords
  /\ Names(todos.items) = <<"A", "B", "C">>
  /\ todos.items[2].TagNames = <<"x", "y">> /\ todos.items[2].Project = "Home"
  /\ todos.items[3].CompletionDate.isNil /\ todos.items[3].TagNames = <<>>

----------------------------------------------------------------------------
\* C19 (as stated): every successful call of a list-returning operation
\* returns a non-nil sequence, also for the empty array and when the
\* single-day or the area/project filter removes every item. Violated: the
\* filters start from a nil slice and only append to it.
C19_SuccessNonNil == op \in ListReturning /\ err.isNil => ~todos.isNil

\* whether the run applied the single-day filter, the area/project filter
SingleDayRan == op \in CompletedFlow /\ args[1] \notin Keywords
AreaProjectRan == op = "completedFiltered" /\ ~(args[2] = "" /\ args[3] = "")

\* C19 (amended): a successful call of a list-returning operation returns a
\* non-nil sequence when no filter runs in process and the payload is an
\* array, the empty one too; when the single-day or the area/project filter
\* runs, the result is nil exactly when no item is kept; the payload null
\* without a filter gives nil.
C19_NilWhenNothingKept ==
  op \in ListReturning /\ err.isNil =>
    IF SingleDayRan \/ AreaProjectRan
    THEN todos.isNil <=> Len(todos.items) = 0
    ELSE todos.isNil <=> TrimmedOutput(Len(calls)) = "null"

\* a successful single-day run that keeps none of the items it fetched
C19_Witness ==
  /\ op = "completed" /\ err.isNil /\ args[1] = "2024-02-29"
  /\ Names(Fetched(2).items) = <<"A", "B", "C">>
  /\ todos = NilTodos

----------------------------------------------------------------------------
\* C20: formatTodosForDisplay renders one line per item, in the items' order,
\* each line the item's status symbol and then its name, with a newline
\* between two lines and none after the last; the empty list renders as the
\* empty string.

\* the lines, each but the last followed by a newline
RECURSIVE JoinLines(_)
JoinLines(lines) ==
  IF Len(lines) = 0 THEN ""
  ELSE IF Len(lines) = 1 THEN lines[1]
  ELSE lines[1] \o "\n" \o JoinLines(Tail(lines))

C20_OneLinePerItem ==
  op = "formatTodosForDisplay" =>
    /\ ret = JoinLines([i \in 1..Len(args[1].items) |->
                          getStatusSymbol(args[1].items[i].Status) \o args[1].items[i].Name])
    /\ Len(args[1].items) = 0 => ret = ""

\* a list of two items, the second of a status without a symbol
C20_Witness ==
  /\ op = "formatTodosForDisplay"
  /\ Names(args[1].items) = <<"Buy milk", "A">>
  /\ ret = "<U+25CB> Buy milk\nA"

----------------------------------------------------------------------------
\* C21: formatTodoAsJSONL emits one JSON object, on one line, that always
\* holds name and status and holds an optional field (notes, one of the five
\* dates, tagNames, area, project) exactly when that field is not empty in
\* the item.

\* the keys of a JSON object
Keys(v) == {v.a[i][1] : i \in 1..Len(v.a)}

\* the keys of the optional fields of todo that are not empty
FilledKeys(todo) ==
  (IF todo.Notes # "" THEN {"notes"} ELSE {})
    \cup (IF ~todo.CreationDate.isNil THEN {"creationDate"} ELSE {})
    \cup (IF ~todo.ModificationDate.isNil THEN {"modificationDate"} ELSE {})
    \cup (IF ~todo.DueDate.isNil THEN {"dueDate"} ELSE {})
    \cup (IF ~todo.CompletionDate.isNil THEN {"completionDate"} ELSE {})
    \cup (IF ~todo.CancellationDate.isNil THEN {"cancellationDate"} ELSE {})
    \cup (IF Len(todo.TagNames) > 0 THEN {"tagNames"} ELSE {})
    \cup (IF todo.Area # "" THEN {"area"} ELSE {})
    \cup (IF todo.Project # "" THEN {"project"} ELSE {})

C21_LineMembers ==
  op = "formatTodoAsJSONL" =>
    /\ err.isNil
    /\ ~Contains(ret, "\n")
    /\ \A p \in {ParseJSON(ret)} :
         /\ p.ok /\ p.v.t = "object"
         /\ Keys(p.v) = {"name", "status"} \cup FilledKeys(args[1])
         /\ Cardinality(Keys(p.v)) = Len(p.v.a)

\* an item with a name and a status and nothing else
C21_Witness ==
  /\ op = "formatTodoAsJSONL"
  /\ FilledKeys(args[1]) = {}
  /\ ret = "{\"name\":\"Buy milk\",\"status\":\"open\"}"

----------------------------------------------------------------------------
\* C22: in the commands, an application-level failure (a fetch error whose
\* message starts with ERROR:, a mutation result with Success false) comes
\* back as an exit-coded error of code 1 that carries the message, with the
\* hint to use things list appended by show; a failure of the executor comes
\* back as a plain error, never as an exit-coded one.
FetchCommands == {"showCommand", "logCommand"}
MutationCommands == {"addCommand", "deleteCommand", "moveCommand", "renameCommand"}

\* the last call the command made answered with an ERROR: text, or failed
AnsweredSentinel ==
  Len(calls) > 0 /\ ~ExecFailed(Len(calls)) /\ SentinelOutput(Len(calls))
ExecutorFailed == Len(calls) > 0 /\ ExecFailed(Len(calls))

\* cli.Exit(message, 1)
ExitsWith(message) ==
  ~ret.exit.isNil /\ ret.exit.exitCoder /\ ret.exit.code = 1 /\ ret.exit.msg = message

C22_FailureClasses ==
  /\ op = "showCommand" /\ AnsweredSentinel =>
       ExitsWith(TrimmedOutput(1) \o "\nUse <U+0060>things list<U+0060> to see available lists.")
  /\ op = "logCommand" /\ AnsweredSentinel => ExitsWith(TrimmedOutput(Len(calls)))
  /\ op \in MutationCommands /\ err.isNil /\ ~result.Success =>
       ExitsWith(result.Message) /\ AnsweredSentinel
  /\ op \in FetchCommands \cup MutationCommands /\ ExecutorFailed =>
       ~ret.exit.isNil /\ ~ret.exit.exitCoder /\ ret.out = ""

\* show of a list that the bridge does not find
C22_Witness ==
  /\ op = "showCommand" /\ calls[1].out = "ERROR: List \"Logbook\" not found"
  /\ calls[1].err.isNil
  /\ ret.exit.exitCoder /\ ret.exit.code = 1
  /\ ret.exit.msg =
       "ERROR: List \"Logbook\" not found\nUse <U+0060>things list<U+0060> to see available lists."

----------------------------------------------------------------------------
\* C23: log accepts the tokens today, this week and this month alone: for any
\* other --date it returns an exit-coded error of code 1 whose message starts
\* with ERROR:, and the executor is not invoked, neither for housekeeping nor
\* for the fetch; for the three tokens housekeeping is invoked.
C23_LogDateTokens ==
  op = "logCommand" =>
    IF args[1] \in Keywords THEN Len(calls) >= 1 /\ ScriptOf(1) = logCompletedScript
    ELSE /\ calls = <<>>
         /\ ~ret.exit.isNil /\ ret.exit.exitCoder /\ ret.exit.code = 1
         /\ HasPrefix(ret.exit.msg, "ERROR:")
         /\ ret.out = ""

\* a date of the calendar, which getCompletedTodos would take
C23_Witness ==
  /\ op = "logCommand" /\ args[1] = "2024-01-15" /\ calls = <<>>
  /\ ret.exit.exitCoder /\ ret.exit.code = 1

----------------------------------------------------------------------------
\* C24: the output of the bridge is classified after its white space is
\* trimmed: for every operation, white space (spaces, newlines) added before
\* and after the output of every call leaves what the operation returns
\* unchanged; the output "\n  ERROR: x \n" is an application-level failure.

\* the answer of call k with white space around its output (any answer for a
\* call that was not made)
Padded(k) ==
  IF k <= Len(calls) THEN Answer("\n \n" \o calls[k].out \o "  \n", calls[k].err)
  ELSE Answer("", NilErr)

\* the operation of the state run again on the padded answers
Rerun ==
  CASE op = "list" -> getTodosFromList(args[1], Padded(1))
    [] op = "add" -> addTodoToList(args[1], args[2], args[3], Padded(1))
    [] op = "delete" -> deleteTodoFromList(args[1], args[2], Padded(1))
    [] op = "move" -> moveTodoBetweenLists(args[1], args[2], args[3], Padded(1))
    [] op = "rename" -> renameTodoInList(args[1], args[2], args[3], Padded(1))
    [] op = "housekeeping" -> logCompletedNow(Padded(1))
    [] op = "completed" ->
         getCompletedTodos(args[1], args[2], args[3], Padded(1), Padded(2))
    [] op = "completedFiltered" ->
         getCompletedTodosFiltered(args[1], args[2], args[3], args[4], args[5],
                                   Padded(1), Padded(2))

C24_TrimmedClassification ==
  op \in SingleCall \cup CompletedFlow =>
    \A r \in {Rerun} :
      /\ r.result = result /\ r.todos = todos /\ r.err = err
      /\ Len(r.calls) = Len(calls)

\* the fetch whose output is an ERROR: text with white space around it
C24_Witness ==
  /\ op = "list" /\ calls[1].out = "\n  ERROR: x \n" /\ calls[1].err.isNil
  /\ err = Error("ERROR: x") /\ todos = NilTodos

----------------------------------------------------------------------------
\* C25: every string of the caller is escaped for the dialect of the script
\* at every place it is put into it: the fetch (the list name, twice), add
\* (list name, name, tags), delete (list name, name) and rename (list name,
\* old name, new name) put a backslash before each single quote and leave
\* double quotes as they are; move (from list, name, to list) puts a
\* backslash before each double quote and leaves single quotes as they are.

\* s with a backslash before each character q, and nothing else changed
RECURSIVE Backslashed(_, _)
Backslashed(s, q) ==
  IF Len(s) = 0 THEN ""
  ELSE (IF At(s, 1) = q THEN "\\" \o q ELSE At(s, 1)) \o Backslashed(Sub(s, 2, Len(s)), q)

\* parameter n as a literal of the JXA dialect, of the AppleScript dialect
Single(n) == Lit(Backslashed(args[n], "'"), "'")
Double(n) == Lit(Backslashed(args[n], "\""), "\"")

\* the script of the call holds the text before \o lit.text \o after
Holds(before, lit, after) == Contains(ScriptOf(1), before \o lit.text \o after)

C25_EscapedForDialect ==
  /\ op = "list" =>
       /\ interp = <<Single(1), Single(1)>>
       /\ Holds("app.lists.byName('", Single(1), "');")
       /\ Holds("'ERROR: List \"", Single(1), "\" not found';")
  /\ op = "add" =>
       /\ interp = IF args[3] = "" THEN <<Single(1), Single(2)>>
                   ELSE <<Single(1), Single(2), Single(3)>>
       /\ Holds("app.lists.byName('", Single(1), "');")
       /\ Holds("app.ToDo({name: '", Single(2), "'")
       /\ args[3] # "" => Holds("', tagNames: '", Single(3), "'});")
  /\ op = "delete" =>
       /\ interp = <<Single(1), Single(2)>>
       /\ Holds("app.lists.byName('", Single(1), "');")
       /\ Holds("todos[i].name() === '", Single(2), "') {")
  /\ op = "rename" =>
       /\ interp = <<Single(1), Single(2), Single(3)>>
       /\ Holds("app.lists.byName('", Single(1), "');")
       /\ Holds("todos[i].name() === '", Single(2), "') {")
       /\ Holds("todos[i].name = '", Single(3), "';")
  /\ op = "move" =>
       /\ interp = <<Double(1), Double(3), Double(2)>>
       /\ Holds("to do of list \"", Double(1), "\" whose name is \"" \o Double(3).text \o "\"")
       /\ Holds("move todoItem to list \"", Double(2), "\"")

\* a move whose task name holds both kinds of quotes
C25_Witness ==
  /\ op = "move" /\ args[3] = "Bob's \"B\""
  /\ interp[2] = Lit("Bob's \\\"B\\\"", "\"")
  /\ Contains(ScriptOf(1), "whose name is \"Bob's \\\"B\\\"\"")

----------------------------------------------------------------------------
\* C26: every date-filtered flow fetches the list Logbook with a lower bound
\* that is not empty, the start of the window in RFC 3339, for keywords and
\* single days alike, so that the script skips the items without a completion
\* date or with one before the start; getTodosFromList passes the empty
\* filter, and its script holds no test of the date.

\* how a script that fetches the Logbook with a lower bound begins, up to the
\* text of the bound
LogbookHead ==
  "\ntry {\n    var app = Application('Things3');\n    var list = app.lists.byName('Logbook');\n    var todos = list.toDos();\n    var result = [];\n    var filterDate = new Date('"

\* the longest text of a bound that is looked for
MaxBound == 40

\* the ends of the texts that start at from in s and are followed by close
BoundEnds(s, from, close) ==
  {q \in from..(from + MaxBound) : Sub(s, q + 1, q + Len(close)) = close}

\* the text of s from position from up to the first close ("" without one)
TextUpTo(s, from, close) ==
  IF BoundEnds(s, from, close) = {} THEN ""
  ELSE Sub(s, from, CHOOSE q \in BoundEnds(s, from, close) :
                      \A r \in BoundEnds(s, from, close) : q <= r)

\* the flows that filter by date, and the start of the window of the state
DateFlows == CompletedFlow \cup {"logCommand"}

WindowStart ==
  CASE op = "completed" -> parseDateFilter(args[1], args[2], args[3]).startTime
    [] op = "completedFiltered" -> parseDateFilter(args[1], args[4], args[5]).startTime
    [] op = "logCommand" -> parseDateFilter(args[1], args[3], args[4]).startTime

C26_LogbookLowerBound ==
  /\ op \in DateFlows /\ Len(calls) >= 2 =>
       /\ Len(calls) = 2
       /\ HasPrefix(ScriptOf(2), LogbookHead)
       /\ \A bound \in {TextUpTo(ScriptOf(2), Len(LogbookHead) + 1, "');")} :
            /\ bound # ""
            /\ ParseRFC3339(bound).ok
            /\ ParseRFC3339(bound).t = WindowStart
       /\ Contains(ScriptOf(2),
            "if (!completionDate || completionDate < filterDate) {\n            continue;\n        }")
  /\ op \in {"list", "showCommand"} =>
       /\ ~Contains(ScriptOf(1), "filterDate")
       /\ ~Contains(ScriptOf(1), "continue;")

\* a single day in a location west of UTC
C26_Witness ==
  /\ op = "completed" /\ args[1] = "2024-01-15" /\ args[3] = -18000 /\ Len(calls) = 2
  /\ Contains(ScriptOf(2), "var filterDate = new Date('2024-01-15T00:00:00-05:00');")

----------------------------------------------------------------------------
\* C27: every call of the executor runs osascript with the text of the script
\* as the last argument, after -e; the fetch, add, delete, rename and
\* housekeeping pass -l JavaScript before it, and move alone is run without
\* that flag.
MoveOps == {"move", "moveCommand"}

----------------------------------------------------------------------------
\* C28 (as stated): when the token given to getCompletedTodos is neither a
\* keyword nor a date, the call returns the invalid date format error with a
\* nil list, does not fetch the Logbook, and has invoked housekeeping once.
\* Violated: when housekeeping fails, its error is returned and the token is
\* not looked at.
InvalidToken == args[1] \notin Keywords \cup CalendarDates

C28_InvalidTokenError ==
  op = "completed" /\ InvalidToken =>
    /\ err = Error("invalid date format: " \o args[1])
    /\ todos = NilTodos
    /\ Len(calls) = 1 /\ ScriptOf(1) = logCompletedScript

\* C28 (amended): when the token is neither a keyword nor a date,
\* getCompletedTodos invokes housekeeping once and nothing else and returns a
\* nil list; the error is the invalid date format error when housekeeping
\* succeeded, and the error of housekeeping when it failed.
C28_InvalidTokenAfterHousekeeping ==
  op = "completed" /\ InvalidToken =>
    /\ todos = NilTodos
    /\ Len(calls) = 1 /\ ScriptOf(1) = logCompletedScript
    /\ err = IF ExecFailed(1) THEN Error("error running JXA script: " \o calls[1].err.msg)
             ELSE IF SentinelOutput(1) THEN Error(TrimmedOutput(1))
             ELSE Error("invalid date format: " \o args[1])

\* a token that is no date, after housekeeping that succeeded
C28_Witness ==
  /\ op = "completed" /\ args[1] = "2023-02-29"
  /\ Len(calls) = 1 /\ calls[1].out = "SUCCESS" /\ calls[1].err.isNil
  /\ err.msg = "invalid date format: 2023-02-29"

----------------------------------------------------------------------------
\* C29: for every instant now, start(this week) <= start(today) <= now and
\* start(this month) <= start(today), with start(today) - start(this week)
\* between 0 and 6 days; start(this week) is before start(this month) for some
\* instants and after it for others; for a token that is none of the three
\* keywords calculateStartDate returns the zero time.

\* start(this week) is before, is after start(this month) at now
WeekBeforeMonth(now) ==
  Before(calculateStartDate("this week", now), calculateStartDate("this month", now))
MonthBeforeWeek(now) ==
  Before(calculateStartDate("this month", now), calculateStartDate("this week", now))

C29_WindowOrder ==
  op = "calculateStartDate" =>
    /\ \A w \in {calculateStartDate("this week", args[2])},
          d \in {calculateStartDate("today", args[2])},
          m \in {calculateStartDate("this month", args[2])} :
         /\ ~Before(d, w) /\ ~Before(args[2], d) /\ ~Before(d, m)
         /\ UnixSeconds(d) - UnixSeconds(w) \in {k * 86400 : k \in 0..6}
    /\ args[1] \notin Keywords => ret = ZeroTime
    /\ \E n \in Instants(args[2].off) : WeekBeforeMonth(n)
    /\ \E n \in Instants(args[2].off) : MonthBeforeWeek(n)

\* the second day of a month that began on a Friday: the week began in the
\* month before
C29_Witness ==
  /\ op = "calculateStartDate" /\ args[1] = "this week"
  /\ Year(args[2]) = 2024 /\ Month(args[2]) = 3 /\ Day(args[2]) = 2
  /\ Month(ret) = 2 /\ Day(ret) = 25
  /\ WeekBeforeMonth(args[2])

----------------------------------------------------------------------------
\* C30: the round trip of a line: for every item, the decoder of the bridge's
\* records, run on the line formatTodoAsJSONL made of the item, gives an item
\* with the same name, status, notes, dates, tag names, area and project (an
\* empty list of tags and no list being the same).
C30_LineRoundTrip ==
  op = "formatTodoAsJSONL" /\ err.isNil =>
    /\ \A d \in {DecodeTodo(ParseJSON(ret).v)} : d.ok /\ d.todo = args[1]
    /\ Unmarshal("[" \o ret \o "]") = [err |-> NilErr, todos |-> Slice(<<args[1]>>)]

\* an item with a quote and a backslash in its name and a fraction of a second
\* and an offset in its date
C30_Witness ==
  /\ op = "formatTodoAsJSONL" /\ args[1].Name = "a\"b\\c"
  /\ HasPrefix(ret, "{\"name\":\"a\\\"b\\\\c\",")
  /\ Contains(ret, "\"completionDate\":\"2024-01-15T23:59:59.12+05:30\"")
  /\ Contains(ret, "\"tagNames\":[\"a,b\",\"\"]")

----------------------------------------------------------------------------
\* The specification. One run of the program is one operation: op is "none"
\* until it has run, and nothing is kept from one run to the next. The
\* variables hold the call (op, args), the executor calls it made (calls), the
\* strings it put into script literals (interp) and what it returned (r in
\* each action): an OperationResult, a []Todo and an error, or for the
\* functions that return something else, that value (ret). For a command the
\* variables hold what the operation it called returned, and ret holds the
\* error of its Action and what it wrote to standard output.

Init ==
  /\ op = "none"
  /\ args = <<>>
  /\ interp = <<>>
  /\ calls = <<>>
  /\ result = ZeroResult
  /\ todos = NilTodos
  /\ err = NilErr
  /\ ret = NoValue

RunList ==
  /\ op = "none"
  /\ \E listName \in Wild \cup Plain, ans \in Answers(FetchOutputs) :
       \E r \in {getTodosFromList(listName, ans)} :
          /\ op' = "list"
          /\ args' = <<listName>>
          /\ interp' = r.interp
          /\ calls' = r.calls
          /\ result' = r.result
          /\ todos' = r.todos
          /\ err' = r.err
          /\ ret' = NoValue

RunAdd ==
  /\ op = "none"
  /\ \E a \in Args3, ans \in Answers(MutOutputs) :
       \E r \in {addTodoToList(a[1], a[2], a[3], ans)} :
          /\ op' = "add"
          /\ args' = a
          /\ interp' = r.interp
          /\ calls' = r.calls
          /\ result' = r.result
          /\ todos' = r.todos
          /\ err' = r.err
          /\ ret' = NoValue

RunDelete ==
  /\ op = "none"
  /\ \E a \in Args2, ans \in Answers(MutOutputs) :
       \E r \in {deleteTodoFromList(a[1], a[2], ans)} :
          /\ op' = "delete"
          /\ args' = a
          /\ interp' = r.interp
          /\ calls' = r.calls
          /\ result' = r.result
          /\ todos' = r.todos
          /\ err' = r.err
          /\ ret' = NoValue

RunMove ==
  /\ op = "none"
  /\ \E a \in Args3, ans \in Answers(MutOutputs) :
       \E r \in {moveTodoBetweenLists(a[1], a[2], a[3], ans)} :
          /\ op' = "move"
          /\ args' = a
          /\ interp' = r.interp
          /\ calls' = r.calls
          /\ result' = r.result
          /\ todos' = r.todos
          /\ err' = r.err
          /\ ret' = NoValue

RunRename ==
  /\ op = "none"
  /\ \E a \in Args3, ans \in Answers(MutOutputs) :
       \E r \in {renameTodoInList(a[1], a[2], a[3], ans)} :
          /\ op' = "rename"
          /\ args' = a
          /\ interp' = r.interp
          /\ calls' = r.calls
          /\ result' = r.result
          /\ todos' = r.todos
          /\ err' = r.err
          /\ ret' = NoValue

RunLogCompletedNow ==
  /\ op = "none"
  /\ \E ans \in Answers(LogOutputs) :
       \E r \in {logCompletedNow(ans)} :
          /\ op' = "housekeeping"
          /\ args' = <<>>
          /\ interp' = r.interp
          /\ calls' = r.calls
          /\ result' = r.result
          /\ todos' = r.todos
          /\ err' = r.err
          /\ ret' = NoValue

RunCompleted ==
  /\ op = "none"
  /\ \E dateFilter \in DateFilters, loc \in Locs :
     \E now \in Nows(loc), ans1 \in Answers(LogOutputs), ans2 \in Answers(FetchOutputs) :
       \E r \in {getCompletedTodos(dateFilter, now, loc, ans1, ans2)} :
          /\ op' = "completed"
          /\ args' = <<dateFilter, now, loc>>
          /\ interp' = r.interp
          /\ calls' = r.calls
          /\ result' = r.result
          /\ todos' = r.todos
          /\ err' = r.err
          /\ ret' = NoValue

RunCompletedFiltered ==
  /\ op = "none"
  /\ \E dateFilter \in DateFilters, loc \in Locs,
        areaFilter \in AreaFilters, projectFilter \in ProjectFilters :
     \E now \in Nows(loc), ans1 \in Answers(LogOutputs), ans2 \in Answers(FetchOutputs) :
       \E r \in {getCompletedTodosFiltered(dateFilter, areaFilter, projectFilter,
                                            now, loc, ans1, ans2)} :
          /\ op' = "completedFiltered"
          /\ args' = <<dateFilter, areaFilter, projectFilter, now, loc>>
          /\ interp' = r.interp
          /\ calls' = r.calls
          /\ result' = r.result
          /\ todos' = r.todos
          /\ err' = r.err
          /\ ret' = NoValue

RunParseDateFilter ==
  /\ op = "none"
  /\ \E filter \in DateTokens, loc \in Locs :
     \E now \in Nows(loc) :
       \E r \in {parseDateFilter(filter, now, loc)} :
          /\ op' = "parseDateFilter"
          /\ args' = <<filter, now, loc>>
          /\ ret' = [startTime |-> r.startTime, isSingleDay |-> r.isSingleDay]
          /\ err' = r.err
          /\ UNCHANGED <<interp, calls, result, todos>>

RunCalculateStartDate ==
  /\ op = "none"
  /\ \E filter \in StartFilters, loc \in Locs :
     \E now \in Instants(loc) :
          /\ op' = "calculateStartDate"
          /\ args' = <<filter, now>>
          /\ ret' = calculateStartDate(filter, now)
          /\ UNCHANGED <<interp, calls, result, todos, err>>

RunGetStatusSymbol ==
  /\ op = "none"
  /\ \E status \in Statuses :
          /\ op' = "getStatusSymbol"
          /\ args' = <<status>>
          /\ ret' = getStatusSymbol(status)
          /\ UNCHANGED <<interp, calls, result, todos, err>>

RunFormatTodosForDisplay ==
  /\ op = "none"
  /\ \E list \in TodoLists :
          /\ op' = "formatTodosForDisplay"
          /\ args' = <<list>>
          /\ ret' = formatTodosForDisplay(list)
          /\ UNCHANGED <<interp, calls, result, todos, err>>

RunFormatTodoAsJSONL ==
  /\ op = "none"
  /\ \E todo \in LineTodos :
       \E r \in {formatTodoAsJSONL(todo)} :
          /\ op' = "formatTodoAsJSONL"
          /\ args' = <<todo>>
          /\ ret' = r.line
          /\ err' = r.err
          /\ UNCHANGED <<interp, calls, result, todos>>

RunShowCommand ==
  /\ op = "none"
  /\ \E listName \in Plain, jsonl \in BOOLEAN, ans \in Answers(FetchOutputs) :
       \E r \in {showCommand(listName, jsonl, ans)} :
          /\ op' = "showCommand"
          /\ args' = <<listName, jsonl>>
          /\ interp' = r.got.interp
          /\ calls' = r.got.calls
          /\ result' = r.got.result
          /\ todos' = r.got.todos
          /\ err' = r.got.err
          /\ ret' = [exit |-> r.exit, out |-> r.out]

RunAddCommand ==
  /\ op = "none"
  /\ \E a \in Plain \X Plain \X CommandTags, ans \in Answers(MutOutputs) :
       \E r \in {addCommand(a[1], a[2], a[3], ans)} :
          /\ op' = "addCommand"
          /\ args' = a
          /\ interp' = r.got.interp
          /\ calls' = r.got.calls
          /\ result' = r.got.result
          /\ todos' = r.got.todos
          /\ err' = r.got.err
          /\ ret' = [exit |-> r.exit, out |-> r.out]

RunDeleteCommand ==
  /\ op = "none"
  /\ \E a \in Plain \X Plain, ans \in Answers(MutOutputs) :
       \E r \in {deleteCommand(a[1], a[2], ans)} :
          /\ op' = "deleteCommand"
          /\ args' = a
          /\ interp' = r.got.interp
          /\ calls' = r.got.calls
          /\ result' = r.got.result
          /\ todos' = r.got.todos
          /\ err' = r.got.err
          /\ ret' = [exit |-> r.exit, out |-> r.out]

RunMoveCommand ==
  /\ op = "none"
  /\ \E a \in Plain \X Plain \X Plain, ans \in Answers(MutOutputs) :
       \E r \in {moveCommand(a[1], a[2], a[3], ans)} :
          /\ op' = "moveCommand"
          /\ args' = a
          /\ interp' = r.got.interp
          /\ calls' = r.got.calls
          /\ result' = r.got.result
          /\ todos' = r.got.todos
          /\ err' = r.got.err
          /\ ret' = [exit |-> r.exit, out |-> r.out]

RunRenameCommand ==
  /\ op = "none"
  /\ \E a \in Plain \X Plain \X Plain, ans \in Answers(MutOutputs) :
       \E r \in {renameCommand(a[1], a[2], a[3], ans)} :
          /\ op' = "renameCommand"
          /\ args' = a
          /\ interp' = r.got.interp
          /\ calls' = r.got.calls
          /\ result' = r.got.result
          /\ todos' = r.got.todos
          /\ err' = r.got.err
          /\ ret' = [exit |-> r.exit, out |-> r.out]

RunLogCommand ==
  /\ op = "none"
  /\ \E dateFilter \in DateTokens, jsonl \in BOOLEAN, loc \in CommandLocs :
     \E now \in Nows(loc), ans1 \in Answers(LogOutputs), ans2 \in Answers(FetchOutputs) :
       \E r \in {logCommand(dateFilter, jsonl, now, loc, ans1, ans2)} :
          /\ op' = "logCommand"
          /\ args' = <<dateFilter, jsonl, now, loc>>
          /\ interp' = r.got.interp
          /\ calls' = r.got.calls
          /\ result' = r.got.result
          /\ todos' = r.got.todos
          /\ err' = r.got.err
          /\ ret' = [exit |-> r.exit, out |-> r.out]

Next ==
  \/ RunList
  \/ RunAdd
  \/ RunDelete
  \/ RunMove
  \/ RunRename
  \/ RunLogCompletedNow
  \/ RunCompleted
  \/ RunCompletedFiltered
  \/ RunParseDateFilter
  \/ RunCalculateStartDate
  \/ RunGetStatusSymbol
  \/ RunFormatTodosForDisplay
  \/ RunFormatTodoAsJSONL
  \/ RunShowCommand
  \/ RunAddCommand
  \/ RunDeleteCommand
  \/ RunMoveCommand
  \/ RunRenameCommand
  \/ RunLogCommand

Spec == Init /\ [][Next]_vars

====
